---- MODULE Spec2Model ----
(***************************************************************************)
(* Streaming relay of the assistant platform: the connection registry      *)
(* (app/services/websocket_service.py), the streaming aggregator           *)
(* (app/services/ai_service.py) and the session request handler            *)
(* (app/api/routes/websocket_manager.py).                                  *)
(*                                                                         *)
(* The specifications share the registry state:                            *)
(*   SpecAgg  one run of call_ai_recommendation_streaming                  *)
(*   SpecReg  concurrent connect / disconnect / send_message coroutines,   *)
(*            interleaved at their await points                            *)
(*   SpecReq  one ai_recommend_request through handle_ai_recommend_request *)
(*   SpecHttp one POST /ai/recommend through ai_recommend_proxy            *)
(*   SpecPair one aggregator run next to the session of another client     *)
(*   SpecSpan finish_span and SpanInfo.finish on a span table and a span   *)
(*   SpecLoop the receive loop of websocket_endpoint for a registered      *)
(*            session, with the events that close its transport            *)
(***************************************************************************)
EXTENDS Integers, Sequences, FiniteSets, TLC

VARIABLES
    \* ---- WebSocketManager (websocket_service.py:26-32)
    active_connections,   \* client id -> transport, or NoTransport
    client_info,          \* set of client ids that have a client_info entry
    ws_state,             \* transport -> "new" | "open" | "closed"
    peer_gone,            \* transports whose peer has gone: writes on them fail
    outbox,               \* transport -> messages written on it, in order
    ws_calls,             \* history: every push / send_error call, in call order
    \* ---- call_ai_recommendation_streaming (ai_service.py:105-412)
    agg_pc,               \* position of the aggregator run
    response_kind,        \* "" | "json" | "stream": how the response is read
    recommendations_dict, \* insertion-ordered dict: name -> {reason, cautions}
    lines_read,           \* history: the upstream lines consumed so far
    agg_return,           \* the list returned (when agg_pc = "returned")
    agg_error,            \* the error re-raised (when agg_pc = "raised")
    ai_logs,              \* AiRecommendationLog rows stored, oldest first
    ai_sessions,          \* AiSession rows stored
    ai_session_records,   \* AiSessionRecord rows stored
    \* ---- coroutines working on the registry (SpecReg)
    proc,                 \* coroutine -> its position and locals
    connection_status,    \* client id -> connection_status of its ClientConnection row
    \* ---- handle_ai_recommend_request (websocket_manager.py:173-329)
    req_pc,               \* position of the handler
    req,                  \* the data of the ai_recommend_request message
    his_logs,             \* HisPushLog rows, oldest first
    his_log,              \* index of the row the handler resolved, or 0
    role_bindings,        \* ClientRoleBinding: client id -> set of role ids
    acl_allow,            \* RoleServiceAcl: role ids that carry an allow rule
    handler_trail,        \* history: the lookups and calls the handler made, in order
    \* ---- ai_recommend_proxy (ai_proxy.py:24-156)
    http_pc,              \* position of the route handler
    http_req,             \* the AiProxyRequest body
    http_resp,            \* the HTTP answer: its status code and data
    http_trail,           \* history: the lookups and calls the route made, in order
    \* ---- trace_service.py, core/trace.py
    trace_calls,          \* history: every create_trace / create_span / finish call, in order
    db_tx,                \* transaction of the connection's database session
    now,                  \* the clock read by _now() / datetime.now()
    span_record,          \* span_record table: span id -> its row, or NoSpanRow
    span_info,            \* a SpanInfo object
    \* ---- ClientInfo (database_models.py), admin.py
    client_enabled,       \* client id -> enabled of its ClientInfo row, "none" without a row
    \* ---- TraceManager / TraceContext (core/trace.py:105-401)
    tracked_spans,        \* the SpanInfo objects created, in creation order
    current_trace,        \* _current_trace: the number of the active trace, 0 for None
    current_span,         \* _current_span: index of a span in tracked_spans, 0 for None
    contexts              \* the TraceContext objects entered and not exited, innermost last

regVars == <<active_connections, client_info, ws_state, outbox, ws_calls>>
storeVars == <<ai_logs, ai_sessions, ai_session_records>>
aggVars == <<agg_pc, response_kind, recommendations_dict, lines_read, agg_return, agg_error, storeVars>>
procVars == <<proc, connection_status>>
reqVars == <<req_pc, req, his_logs, his_log, role_bindings, acl_allow, handler_trail>>

\* what an aggregator step leaves alone
httpVars == <<http_pc, http_req, http_resp, http_trail>>
nonAggVars == <<procVars, reqVars, httpVars>>
aggVars_but_lines == <<agg_pc, recommendations_dict, agg_return, agg_error, storeVars>>
traceVars == <<trace_calls, db_tx>>
spanVars == <<now, span_record, span_info>>
adminVars == <<client_enabled>>
trackerVars == <<tracked_spans, current_trace, current_span, contexts>>

-----------------------------------------------------------------------------
(* Bounds *)

\* upstream lines consumed by one aggregation run
MaxLines == 3
\* transports (WebSocket objects) that ever exist
NumTransports == 2
\* iterations of a receive loop on a closed transport that are followed
MaxSpins == 1

-----------------------------------------------------------------------------
(* Values *)

\* the absence of a key in active_connections
NoTransport == 0
Transports == 1..NumTransports
ClientIds == {"c1", "c2"}
\* the client ids the coroutines of SpecReg work on
RegClients == {"c1"}
AggClient == "c1"
AggRequest == "r1"

\* Texts are sequences of characters; " " is the only whitespace.
Chars == {"a", "b", " "}

RECURSIVE LStrip(_)
LStrip(s) == IF s # <<>> /\ Head(s) = " " THEN LStrip(Tail(s)) ELSE s

RECURSIVE RStrip(_)
RStrip(s) ==
    IF s # <<>> /\ s[Len(s)] = " " THEN RStrip(SubSeq(s, 1, Len(s) - 1)) ELSE s

\* str.strip()
Strip(s) == RStrip(LStrip(s))

-----------------------------------------------------------------------------
(* Connection registry, as used within one coroutine step.                 *)
(* A registry value R collects the registry variables, so that the calls   *)
(* one handler makes in sequence can be composed.                          *)

Reg == [active |-> active_connections, info |-> client_info, ws |-> ws_state,
        outbox |-> outbox, calls |-> ws_calls]

\* websocket.send_text succeeds on an accepted, unclosed transport whose peer is there
Writable(R, t) == R.ws[t] = "open" /\ t \notin peer_gone

\* lines 80-83: await websocket.close(), its errors swallowed
Closed(R, w) == [R EXCEPT !.ws[w] = "closed"]

\* mutant of Removed: the connection is deleted, the client's bookkeeping stays
Removed_KeepsInfo(R, c) ==
    IF R.active[c] # NoTransport THEN [R EXCEPT !.active[c] = NoTransport] ELSE R

\* lines 86-92: del active_connections[client_id] and the client's bookkeeping;
\* with the key gone the del raises KeyError, which disconnect catches and logs
Removed(R, c) ==
    IF R.active[c] # NoTransport
    THEN [R EXCEPT !.active[c] = NoTransport, !.info = @ \ {c}]
    ELSE R

\* mutant of Installed: the connection is stored without its client_info entry
Installed_ConnectionOnly(R, c, t) == [R EXCEPT !.active[c] = t]

\* lines 44-59: the new connection and its client_info are stored
Installed(R, c, t) == [R EXCEPT !.active[c] = t, !.info = @ \cup {c}]

\* WebSocketManager.disconnect, run without interleaving
RegDisconnect(R, c) ==
    IF R.active[c] # NoTransport THEN Removed(Closed(R, R.active[c]), c) ELSE R

\* the transport write of send_message fails: the handler unregisters the client
SendFailed(R, c) == RegDisconnect(R, c)

\* WebSocketManager.send_message, run without interleaving: [reg, ok]
RegSend(R, c, msg) ==
    IF R.active[c] = NoTransport
    THEN [reg |-> R, ok |-> FALSE]
    ELSE IF Writable(R, R.active[c])
         THEN [reg |-> [R EXCEPT !.outbox[R.active[c]] = Append(@, msg)], ok |-> TRUE]
         ELSE [reg |-> SendFailed(R, c), ok |-> FALSE]

ErrorMsg(code) ==
    [type |-> "error", requestId |-> "", code |-> code,
     recommendations |-> <<>>, partial |-> FALSE, finish |-> FALSE]

AiMsg(request_id, recs, partial, finish) ==
    [type |-> "ai_recommendation", requestId |-> request_id, code |-> "",
     recommendations |-> recs, partial |-> partial, finish |-> finish]

Logged(R, msg, ok) == [R EXCEPT !.calls = Append(@, [msg |-> msg, ok |-> ok])]

\* WebSocketManager.send_error
send_error(R, c, code) ==
    LET s == RegSend(R, c, ErrorMsg(code)) IN Logged(s.reg, ErrorMsg(code), s.ok)

\* WebSocketService.push_ai_recommendation
push_ai_recommendation(R, c, request_id, recs, partial, finish) ==
    LET m == AiMsg(request_id, recs, partial, finish)
        s == RegSend(R, c, m)
    IN Logged(s.reg, m, s.ok)

\* the registry variables take the values of R
Commit(R) ==
    /\ active_connections' = R.active
    /\ client_info' = R.info
    /\ ws_state' = R.ws
    /\ outbox' = R.outbox
    /\ ws_calls' = R.calls

-----------------------------------------------------------------------------
(* Coroutines on the registry, interleaved at their await points (SpecReg). *)
(* Coroutine t in Transports is websocket_endpoint run for transport t;     *)
(* coroutine 0 is a caller outside any session loop: one send_message call  *)
(* (the push of patient data) or one disconnect call (the admin routes).    *)

Callers == {0}
Procs == Callers \cup Transports

HeartbeatMsg ==
    [type |-> "heartbeat", requestId |-> "", code |-> "",
     recommendations |-> <<>>, partial |-> FALSE, finish |-> FALSE]

\* WebSocketService.push_patient_data: the message an outside caller sends
PatientDataMsg ==
    [type |-> "patient_data", requestId |-> "", code |-> "",
     recommendations |-> <<>>, partial |-> FALSE, finish |-> FALSE]

\* the message coroutine p sends: the heartbeat of connect, or the caller's
SentBy(p) == IF p \in Callers THEN PatientDataMsg ELSE HeartbeatMsg

\* the record of one send_message call
NoSend ==
    [called |-> FALSE, reg_at_call |-> NoTransport, attempts |-> 0, wrote |-> FALSE,
     ret |-> "none", reg_at_ret |-> NoTransport]

\* the record of one connect call at its return
NoReturn == [returned |-> FALSE, reg |-> NoTransport, pre_closed |-> FALSE]

ProcStart(pc0) ==
    [pc |-> pc0, client |-> "c1", ws |-> NoTransport, pre |-> NoTransport,
     alone |-> TRUE, snd |-> NoSend, conn |-> NoReturn]

ProcIdle ==
    /\ proc = [p \in Procs |-> IF p \in Callers THEN ProcStart("idle") ELSE ProcStart("new")]
    /\ connection_status = [c \in ClientIds |-> "none"]

\* coroutine q is inside connect, disconnect or send_message
InOp(q) ==
    proc[q].pc \in {"accept", "rc_close", "db_update", "hb_write", "hb_close",
                    "cl_close", "write", "s_close", "u_close"}

\* coroutine p enters a registry operation on client c: every operation on c that
\* is in flight overlaps it
Entering(p, c, rec) ==
    [q \in Procs |->
        IF q = p THEN [rec EXCEPT !.alone = ~\E r \in Procs \ {p} : InOp(r) /\ proc[r].client = c]
        ELSE IF InOp(q) /\ proc[q].client = c THEN [proc[q] EXCEPT !.alone = FALSE]
        ELSE proc[q]]

\* mutant of MustReplace: connect never looks for an existing connection
MustReplace_Never(R, c) == FALSE

\* line 40: if client_id in self.active_connections
MustReplace(R, c) == R.active[c] # NoTransport

\* mutant of FailureUnregisters: a failed write leaves the registry alone
FailureUnregisters_Never(R, c) == FALSE

\* lines 130-135 and 78: a failed write calls disconnect, which finds the client
FailureUnregisters(R, c) == R.active[c] # NoTransport

\* connect returns to websocket_endpoint, which is at the top of its receive loop,
\* about to call receive_text
Returned(rec, R) ==
    [rec EXCEPT !.pc = "top",
                !.conn = [returned |-> TRUE, reg |-> R.active[rec.client],
                          pre_closed |-> rec.pre # NoTransport /\ R.ws[rec.pre] = "closed"]]

\* lines 94-101 of the route: the endpoint has left connect and its loop for its
\* finally block; the locals of the calls it made are gone
Cleanup(t, pc0) == [ProcStart(pc0) EXCEPT !.client = proc[t].client]

\* lines 38-53: the endpoint is entered and connect awaits websocket.accept()
EpStart(t, c) ==
    /\ proc[t].pc = "new"
    /\ t = 1 \/ proc[t - 1].pc # "new"
    /\ proc' = Entering(t, c, [ProcStart("accept") EXCEPT
                                 !.client = c, !.pre = active_connections[c]])
    /\ UNCHANGED <<regVars, peer_gone, connection_status, aggVars, reqVars, httpVars>>
    /\ UNCHANGED <<traceVars, spanVars, adminVars, trackerVars>>

\* lines 37-59: the handshake succeeded; an existing connection is disconnected
\* first (up to its close), else the new one is stored
EpAccepted(t) ==
    /\ proc[t].pc = "accept"
    /\ LET c == proc[t].client
           R0 == [Reg EXCEPT !.ws[t] = "open"]
       IN IF MustReplace(R0, c)
          THEN /\ Commit(R0)
               /\ proc' = [proc EXCEPT ![t].pc = "rc_close", ![t].ws = R0.active[c]]
          ELSE /\ Commit(Installed(R0, c, t))
               /\ proc' = [proc EXCEPT ![t].pc = "db_update"]
    /\ UNCHANGED <<peer_gone, connection_status, aggVars, reqVars, httpVars>>
    /\ UNCHANGED <<traceVars, spanVars, adminVars, trackerVars>>

\* lines 71-73, 94-101: the handshake failed; connect raises and the endpoint's
\* finally calls disconnect(client_id)
EpAcceptFailed(t) ==
    /\ proc[t].pc = "accept"
    /\ LET c == proc[t].client
           R0 == [Reg EXCEPT !.ws[t] = "closed"]
       IN /\ Commit(R0)
          /\ proc' = IF R0.active[c] # NoTransport
                     THEN Entering(t, c, [Cleanup(t, "cl_close") EXCEPT !.ws = R0.active[c]])
                     ELSE [proc EXCEPT ![t] = Cleanup(t, "cl_db")]
    /\ UNCHANGED <<peer_gone, connection_status, aggVars, reqVars, httpVars>>
    /\ UNCHANGED <<traceVars, spanVars, adminVars, trackerVars>>

\* lines 81-92, 44-59: the old connection's close returned; its entries are
\* deleted and the new connection is stored
EpReplaceClosed(t) ==
    /\ proc[t].pc = "rc_close"
    /\ LET c == proc[t].client
       IN Commit(Installed(Removed(Closed(Reg, proc[t].ws), c), c, t))
    /\ proc' = [proc EXCEPT ![t].pc = "db_update", ![t].ws = NoTransport]
    /\ UNCHANGED <<peer_gone, connection_status, aggVars, reqVars, httpVars>>
    /\ UNCHANGED <<traceVars, spanVars, adminVars, trackerVars>>

\* lines 62-69, 105-123: the status record is written; send_heartbeat looks the
\* client up and starts its write, or returns False at once
EpDbUpdated(t) ==
    /\ proc[t].pc = "db_update"
    /\ LET c == proc[t].client
           snd == [NoSend EXCEPT !.called = TRUE, !.reg_at_call = active_connections[c]]
       IN /\ connection_status' = [connection_status EXCEPT ![c] = "connected"]
          /\ proc' = IF active_connections[c] = NoTransport
                     THEN [proc EXCEPT ![t] =
                             Returned([proc[t] EXCEPT !.snd = [snd EXCEPT !.ret = "false"]], Reg)]
                     ELSE [proc EXCEPT ![t].pc = "hb_write", ![t].snd = snd,
                                       ![t].ws = active_connections[c]]
    /\ UNCHANGED <<regVars, peer_gone, aggVars, reqVars, httpVars>>
    /\ UNCHANGED <<traceVars, spanVars, adminVars, trackerVars>>

\* the write of a send_message call by coroutine p ended: result of the call when
\* it returns here, "" when the failure handler is now awaiting a close
WriteOutcome(p) ==
    IF Writable(Reg, proc[p].ws) THEN "true"
    ELSE IF FailureUnregisters(Reg, proc[p].client) THEN "" ELSE "false"

\* lines 123-136: the registry and the call record after the write ended
AfterWrite(p) ==
    LET c == proc[p].client
        ok == Writable(Reg, proc[p].ws)
        R1 == IF ok THEN [Reg EXCEPT !.outbox[proc[p].ws] = Append(@, SentBy(p))] ELSE Reg
        snd == [proc[p].snd EXCEPT !.attempts = @ + 1, !.wrote = ok,
                                   !.ret = IF WriteOutcome(p) = "" THEN "none"
                                           ELSE WriteOutcome(p),
                                   !.reg_at_ret = R1.active[c]]
    IN [reg |-> R1,
        rec |-> [proc[p] EXCEPT !.snd = snd,
                                !.ws = IF WriteOutcome(p) = "" THEN R1.active[c]
                                       ELSE NoTransport]]

\* lines 81-92, 136: the failure handler's close returned; entries are deleted and
\* the call returns False
AfterFailureClose(p) ==
    LET c == proc[p].client
        R1 == Removed(Closed(Reg, proc[p].ws), c)
    IN [reg |-> R1,
        rec |-> [proc[p] EXCEPT !.ws = NoTransport, !.snd.ret = "false",
                                !.snd.reg_at_ret = R1.active[c]]]

\* lines 123-136, 69: the heartbeat write ended
EpHbWritten(t) ==
    /\ proc[t].pc = "hb_write"
    /\ LET a == AfterWrite(t)
       IN /\ Commit(a.reg)
          /\ proc' = [proc EXCEPT ![t] =
                        IF WriteOutcome(t) = "" THEN [a.rec EXCEPT !.pc = "hb_close"]
                        ELSE Returned(a.rec, a.reg)]
    /\ UNCHANGED <<peer_gone, connection_status, aggVars, reqVars, httpVars>>
    /\ UNCHANGED <<traceVars, spanVars, adminVars, trackerVars>>

\* lines 81-92, 136, 69: the failed heartbeat's disconnect finished
EpHbClosed(t) ==
    /\ proc[t].pc = "hb_close"
    /\ LET a == AfterFailureClose(t)
       IN /\ Commit(a.reg)
          /\ proc' = [proc EXCEPT ![t] = Returned(a.rec, a.reg)]
    /\ UNCHANGED <<peer_gone, connection_status, aggVars, reqVars, httpVars>>
    /\ UNCHANGED <<traceVars, spanVars, adminVars, trackerVars>>

\* the MSG_003 notifications sent so far
Spins == Len(SelectSeq(ws_calls, LAMBDA k : k.msg.type = "error" /\ k.msg.code = "MSG_003"))

\* line 58: receive_text is called on a transport the application has not closed,
\* and suspends until a message or the disconnect arrives
LoopReceive(t) ==
    /\ proc[t].pc = "top"
    /\ ws_state[t] = "open"
    /\ proc' = [proc EXCEPT ![t].pc = "loop"]
    /\ UNCHANGED <<regVars, peer_gone, connection_status, aggVars, reqVars, httpVars>>
    /\ UNCHANGED <<traceVars, spanVars, adminVars, trackerVars>>

\* lines 55-58, 83-92: receive_text is called on a transport the application has
\* closed (disconnect ran websocket.close() while the loop was not suspended in
\* receive_text). Starlette's receive_text tests application_state before it
\* awaits and raises RuntimeError, which is no WebSocketDisconnect: the
\* `except Exception` branch sends MSG_003 by client id and `while True` goes on
LoopReceiveRaises(t) ==
    /\ proc[t].pc = "top"
    /\ ws_state[t] = "closed"
    /\ Spins < MaxSpins
    /\ Commit(send_error(Reg, proc[t].client, "MSG_003"))
    /\ UNCHANGED <<proc, peer_gone, connection_status, aggVars, reqVars, httpVars>>
    /\ UNCHANGED <<traceVars, spanVars, adminVars, trackerVars>>

\* lines 58, 68-72, 99-101: the receive_text the loop is suspended in reports the
\* disconnect; the loop breaks and the finally block calls disconnect(client_id)
EpReceiveDisconnect(t) ==
    /\ proc[t].pc = "loop"
    /\ ws_state[t] = "closed" \/ t \in peer_gone
    /\ LET c == proc[t].client
       IN proc' = IF active_connections[c] # NoTransport
                  THEN Entering(t, c, [Cleanup(t, "cl_close") EXCEPT
                                         !.ws = active_connections[c]])
                  ELSE [proc EXCEPT ![t] = Cleanup(t, "cl_db")]
    /\ UNCHANGED <<regVars, peer_gone, connection_status, aggVars, reqVars, httpVars>>
    /\ UNCHANGED <<traceVars, spanVars, adminVars, trackerVars>>

\* lines 81-92: the cleanup's close returned; entries are deleted
EpCleanupClosed(t) ==
    /\ proc[t].pc = "cl_close"
    /\ Commit(Removed(Closed(Reg, proc[t].ws), proc[t].client))
    /\ proc' = [proc EXCEPT ![t] = Cleanup(t, "cl_db")]
    /\ UNCHANGED <<peer_gone, connection_status, aggVars, reqVars, httpVars>>
    /\ UNCHANGED <<traceVars, spanVars, adminVars, trackerVars>>

\* lines 103-107 of the route: the status record is set to disconnected
EpCleanupDb(t) ==
    /\ proc[t].pc = "cl_db"
    /\ connection_status' = [connection_status EXCEPT ![proc[t].client] = "disconnected"]
    /\ proc' = [proc EXCEPT ![t].pc = "done"]
    /\ UNCHANGED <<regVars, peer_gone, aggVars, reqVars, httpVars>>
    /\ UNCHANGED <<traceVars, spanVars, adminVars, trackerVars>>

\* lines 105-123: send_message is called from outside the session's loop
CallSend(p, c) ==
    /\ p \in Callers
    /\ proc[p].pc = "idle"
    /\ LET snd == [NoSend EXCEPT !.called = TRUE, !.reg_at_call = active_connections[c]]
       IN proc' = IF active_connections[c] = NoTransport
                  THEN [proc EXCEPT ![p] = [ProcStart("done") EXCEPT
                           !.client = c, !.snd = [snd EXCEPT !.ret = "false"]]]
                  ELSE Entering(p, c, [ProcStart("write") EXCEPT
                           !.client = c, !.snd = snd, !.ws = active_connections[c]])
    /\ UNCHANGED <<regVars, peer_gone, connection_status, aggVars, reqVars, httpVars>>
    /\ UNCHANGED <<traceVars, spanVars, adminVars, trackerVars>>

\* lines 123-136: the caller's write ended
CallSendWritten(p) ==
    /\ p \in Callers
    /\ proc[p].pc = "write"
    /\ LET a == AfterWrite(p)
       IN /\ Commit(a.reg)
          /\ proc' = [proc EXCEPT ![p] =
                        [a.rec EXCEPT !.pc = IF WriteOutcome(p) = "" THEN "s_close"
                                             ELSE "done"]]
    /\ UNCHANGED <<peer_gone, connection_status, aggVars, reqVars, httpVars>>
    /\ UNCHANGED <<traceVars, spanVars, adminVars, trackerVars>>

\* lines 81-92, 136: the caller's failed send finished its disconnect
CallSendClosed(p) ==
    /\ p \in Callers
    /\ proc[p].pc = "s_close"
    /\ LET a == AfterFailureClose(p)
       IN /\ Commit(a.reg)
          /\ proc' = [proc EXCEPT ![p] = [a.rec EXCEPT !.pc = "done"]]
    /\ UNCHANGED <<peer_gone, connection_status, aggVars, reqVars, httpVars>>
    /\ UNCHANGED <<traceVars, spanVars, adminVars, trackerVars>>

\* lines 75-81: disconnect is called from outside the session's loop
CallUnregister(p, c) ==
    /\ p \in Callers
    /\ proc[p].pc = "idle"
    /\ proc' = IF active_connections[c] = NoTransport
               THEN [proc EXCEPT ![p] = [ProcStart("done") EXCEPT !.client = c]]
               ELSE Entering(p, c, [ProcStart("u_close") EXCEPT
                        !.client = c, !.ws = active_connections[c]])
    /\ UNCHANGED <<regVars, peer_gone, connection_status, aggVars, reqVars, httpVars>>
    /\ UNCHANGED <<traceVars, spanVars, adminVars, trackerVars>>

\* lines 81-92: the caller's close returned; entries are deleted
CallUnregisterClosed(p) ==
    /\ p \in Callers
    /\ proc[p].pc = "u_close"
    /\ Commit(Removed(Closed(Reg, proc[p].ws), proc[p].client))
    /\ proc' = [proc EXCEPT ![p].pc = "done", ![p].ws = NoTransport]
    /\ UNCHANGED <<peer_gone, connection_status, aggVars, reqVars, httpVars>>
    /\ UNCHANGED <<traceVars, spanVars, adminVars, trackerVars>>

\* the peer of an accepted transport goes away
RegPeerGone(t) ==
    /\ ws_state[t] = "open"
    /\ t \notin peer_gone
    /\ peer_gone' = peer_gone \cup {t}
    /\ UNCHANGED <<regVars, procVars, aggVars, reqVars, httpVars>>
    /\ UNCHANGED <<traceVars, spanVars, adminVars, trackerVars>>

-----------------------------------------------------------------------------
(* trace_service.py: create_trace, create_span, finish_span                *)

\* one call of the tracing functions: who made it, the trace id and span id it
\* carries or returns, the span name and the status passed
TraceCall(op, by, trace, span, name, status) ==
    [op |-> op, by |-> by, trace |-> trace, span |-> span, name |-> name, status |-> status]

CallsOf(calls, op) == SelectSeq(calls, LAMBDA c : c.op = op)

\* generate_trace_id / uuid7_str: an id no earlier call returned
FreshTrace(calls) == Len(CallsOf(calls, "create_trace")) + 1
FreshSpan(calls) == Len(CallsOf(calls, "create_span")) + 1

\* the columns of span_record that are NOT NULL and have no default
\* (database_models.py:269-283)
SpanRecordRequired ==
    {"span_id", "trace_id", "service_name", "span_name", "start_time", "end_time",
     "duration_ms", "status"}

\* the columns create_span gives a value other than None (lines 60-75)
SpanRecordGiven ==
    {"span_id", "trace_id", "service_name", "span_name", "start_time", "duration_ms", "status"}

\* session.flush() of a new SpanRecord: the INSERT is refused when a NOT NULL
\* column is left None
SpanFlushes == SpanRecordRequired \subseteq SpanRecordGiven

\* a flush that raises rolls the transaction back and leaves the session refusing
\* every statement until rollback() is called
AfterFlush(tx, ok) == IF tx = "active" /\ ok THEN "active" ELSE "deactive"

\* create_trace (lines 23-43): the TraceRecord has all its NOT NULL columns; the
\* id is returned whether or not the flush raised
create_trace(T, by) ==
    [calls |-> Append(T.calls, TraceCall("create_trace", by, FreshTrace(T.calls), 0, "", "RUNNING")),
     tx |-> AfterFlush(T.tx, TRUE),
     id |-> FreshTrace(T.calls)]

\* create_span (lines 46-83): the id is returned whether or not the flush raised
create_span(T, by, trace_id, name) ==
    [calls |-> Append(T.calls, TraceCall("create_span", by, trace_id, FreshSpan(T.calls), name,
                                         "RUNNING")),
     tx |-> AfterFlush(T.tx, SpanFlushes),
     id |-> FreshSpan(T.calls)]

\* finish_span (lines 86-119) on a span whose row was never stored: the select
\* raises on a deactive session or finds no row; either way nothing is written
finish_span(T, by, span_id, status) ==
    [calls |-> Append(T.calls, TraceCall("finish_span", by, 0, span_id, "", status)),
     tx |-> T.tx]

\* the tracing state as a record, and back
Tracing == [calls |-> trace_calls, tx |-> db_tx]
CommitTracing(T) == trace_calls' = T.calls /\ db_tx' = T.tx

\* the id the last create_span call by `by` for a span called `name` returned
SpanOf(calls, by, name) ==
    LET mine == SelectSeq(calls, LAMBDA c : c.op = "create_span" /\ c.by = by /\ c.name = name)
    IN mine[Len(mine)].span

\* ai_service.py lines 121-122: the aggregator opens a trace and its span
AggEnter(T) ==
    LET t1 == create_trace(T, "aggregator")
    IN create_span(t1, "aggregator", t1.id, "ai_stream_call")

\* websocket_manager.py lines 307-310: the handler opens a trace and its two spans
HandlerEnter(T) ==
    LET t1 == create_trace(T, "handler")
        t2 == create_span(t1, "handler", t1.id, "ws_handle_ai_request")
    IN create_span(t2, "handler", t1.id, "ai_stream_call")

\* mutant of HandlerExit: the failure branch does not finish the call span
HandlerExit_FailureLeavesSpan(T, raised) ==
    LET t1 == IF raised THEN T
              ELSE finish_span(T, "handler", SpanOf(T.calls, "handler", "ai_stream_call"),
                               "SUCCESS")
    IN finish_span(t1, "handler", SpanOf(T.calls, "handler", "ws_handle_ai_request"), "SUCCESS")

\* websocket_manager.py lines 318-323: the call span is finished SUCCESS after the
\* aggregator returned and FAILED in the except branch; the finally block finishes
\* the handler span
HandlerExit(T, raised) ==
    LET t1 == finish_span(T, "handler", SpanOf(T.calls, "handler", "ai_stream_call"),
                          IF raised THEN "FAILED" ELSE "SUCCESS")
    IN finish_span(t1, "handler", SpanOf(T.calls, "handler", "ws_handle_ai_request"), "SUCCESS")

\* ai_service.py lines 341-345 and 403-410: the aggregator finishes its span
AggExit(T, status) ==
    finish_span(T, "aggregator", SpanOf(T.calls, "aggregator", "ai_stream_call"), status)

TraceIdle == trace_calls = <<>> /\ db_tx = "active"

\* the ids a span row is looked up by
SpanIds == {1, 2}

\* None / NULL in a time or duration field
NoTime == -1

\* no row with that span_id
NoSpanRow ==
    [start_time |-> NoTime, end_time |-> NoTime, duration_ms |-> 0, status |-> "",
     response_data |-> "", error_message |-> ""]

\* a span_record row of a span that is running ("" reads NULL)
SpanRow(start) ==
    [start_time |-> start, end_time |-> NoTime, duration_ms |-> 0, status |-> "RUNNING",
     response_data |-> "", error_message |-> ""]

\* trace_service.py lines 101-117: the assignments finish_span makes to the row
RowFinished(row, t, status, response, error_message) ==
    [row EXCEPT !.end_time = t,
                !.duration_ms = IF row.start_time # NoTime THEN t - row.start_time ELSE 0,
                !.status = status,
                !.response_data = IF response # "" THEN response ELSE @,
                !.error_message = IF error_message # "" THEN error_message ELSE @]

\* trace_service.py lines 86-119, finish_span: the table after the call; nothing
\* changes when the select raises (deactive session) or finds no row
FinishSpanRow(tx, table, span_id, t, status, response, error_message) ==
    IF tx = "active" /\ table[span_id] # NoSpanRow
    THEN [table EXCEPT ![span_id] = RowFinished(@, t, status, response, error_message)]
    ELSE table

\* core/trace.py lines 40-51: a SpanInfo as its constructor leaves it
NewSpanInfo(start) ==
    [start_time |-> start, end_time |-> NoTime, duration_ms |-> NoTime, status |-> "running",
     error_message |-> ""]

\* core/trace.py lines 53-59, SpanInfo.finish
InfoFinished(info, t, status, error_message) ==
    [info EXCEPT !.end_time = t,
                 !.duration_ms = t - info.start_time,
                 !.status = status,
                 !.error_message = IF error_message # "" THEN error_message ELSE @]

\* core/trace.py lines 105-106: the context variables at their default None
TrackerIdle ==
    /\ tracked_spans = <<>>
    /\ current_trace = 0
    /\ current_span = 0
    /\ contexts = <<>>

\* no client has a ClientInfo row
AdminIdle == client_enabled = [c \in ClientIds |-> "none"]

SpanIdle ==
    /\ now = 0
    /\ span_record = [s \in SpanIds |-> NoSpanRow]
    /\ span_info = NewSpanInfo(0)

-----------------------------------------------------------------------------
(* handle_ai_recommend_request: validation, the three-tier lookup of the   *)
(* HIS push record, the permission check, the aggregator call (SpecReq).   *)

Roles == {"role1"}

\* a HisPushLog row; recent: created within the last 5 minutes; within30: within
\* the last 30 minutes; item_ok: its item_data builds an ItemData
HisLog(pat_no, user_code, adm_id, recent, item_ok) ==
    [pat_no |-> pat_no, user_code |-> user_code, adm_id |-> adm_id,
     recent |-> recent, item_ok |-> item_ok, push_status |-> "success", within30 |-> TRUE]

\* the HisPushLog tables the handler is run against, rows oldest first
HisTables ==
    { <<>>,
      << HisLog("p1", "d1", "v2", FALSE, TRUE) >>,
      << HisLog("p1", "d2", "v1", FALSE, TRUE) >>,
      << HisLog("p2", "d1", "v2", TRUE, TRUE) >>,
      << HisLog("p2", "d1", "v2", FALSE, TRUE) >>,
      << HisLog("p1", "d1", "v1", TRUE, FALSE) >>,
      << HisLog("p1", "d2", "v1", FALSE, TRUE), HisLog("p1", "d1", "v2", FALSE, TRUE),
         HisLog("p2", "d1", "v1", TRUE, TRUE) >>,
      << HisLog("p1", "d1", "v1", FALSE, TRUE), HisLog("p1", "d1", "v2", FALSE, TRUE),
         HisLog("p2", "d2", "v2", TRUE, TRUE) >> }

Request(requestId, patientId, visitId, doctorId) ==
    [requestId |-> requestId, patientId |-> patientId, visitId |-> visitId,
     doctorId |-> doctorId]

\* the request data the handler is run on; "" is a missing or empty field
Requests ==
    { Request("r1", "p1", "v1", "d1"),
      Request("r1", "p1", "v1", ""),
      Request("r1", "p1", "", "d1"),
      Request("r1", "", "v1", "d1"),
      Request("", "p1", "v1", "d1") }

ReqIdle ==
    /\ req_pc = "idle"
    /\ req = Request("", "", "", "")
    /\ his_logs = <<>>
    /\ his_log = 0
    /\ role_bindings = [c \in ClientIds |-> {}]
    /\ acl_allow = {}
    /\ handler_trail = <<>>

\* an AiProxyRequest body (schemas/ai_schemas.py:42-52)
AiProxyRequest(client_id, doctor_id, request_id, patient_id, visit_id, use_cached_data) ==
    [client_id |-> client_id, doctor_id |-> doctor_id, request_id |-> request_id,
     patient_id |-> patient_id, visit_id |-> visit_id, use_cached_data |-> use_cached_data]

\* no answer yet
NoResponse == [code |-> 0, recommendations |-> <<>>, cached |-> FALSE]

HttpIdle ==
    /\ http_pc = "idle"
    /\ http_req = AiProxyRequest("", "", "", "", "", FALSE)
    /\ http_resp = NoResponse
    /\ http_trail = <<>>

\* mutant of WellFormed: the visit id is not checked
WellFormed_NoVisit(r) == r.requestId # "" /\ r.patientId # "" /\ r.doctorId # ""

\* lines 176-180: all four fields present and non-empty
WellFormed(r) ==
    r.requestId # "" /\ r.patientId # "" /\ r.visitId # "" /\ r.doctorId # ""

\* order_by(created_at.desc()).limit(1) ... first(): the newest row of a set, or 0
Newest(rows) == IF rows = {} THEN 0 ELSE CHOOSE i \in rows : \A j \in rows : j <= i

\* lines 190-203: rows matching patient and doctor
Tier1(r) ==
    {i \in DOMAIN his_logs : his_logs[i].pat_no = r.patientId /\ his_logs[i].user_code = r.doctorId}

\* lines 205-216: rows matching patient and visit
Tier2(r) ==
    {i \in DOMAIN his_logs : his_logs[i].pat_no = r.patientId /\ his_logs[i].adm_id = r.visitId}

\* mutant of Tier3: the 5-minute window is not applied
Tier3_AnyAge(r) == {i \in DOMAIN his_logs : his_logs[i].user_code = r.doctorId}

\* lines 218-236: rows of the doctor created within the last 5 minutes
Tier3(r) ==
    {i \in DOMAIN his_logs : his_logs[i].user_code = r.doctorId /\ his_logs[i].recent}

\* mutant of Resolve: the visit query is tried before the doctor query
Resolve_VisitFirst(r) ==
    IF Tier2(r) # {} THEN Newest(Tier2(r))
    ELSE IF Tier1(r) # {} THEN Newest(Tier1(r))
    ELSE Newest(Tier3(r))

\* lines 190-236: the row the three queries settle on, or 0
Resolve(r) ==
    IF Tier1(r) # {} THEN Newest(Tier1(r))
    ELSE IF Tier2(r) # {} THEN Newest(Tier2(r))
    ELSE Newest(Tier3(r))

\* lines 190-236: the queries run, in order
Lookups(r) ==
    IF Tier1(r) # {} THEN <<"lookup1">>
    ELSE IF Tier2(r) # {} THEN <<"lookup1", "lookup2">>
    ELSE <<"lookup1", "lookup2", "lookup3">>

\* database_models.RoleServiceAcl: the attributes the mapped class defines
RoleServiceAclColumns == {"id", "role_id", "service_id", "create_time"}

\* permission_service.is_client_allowed: "true" | "false" | "raise". Without
\* bindings it returns True; with bindings it builds a query on
\* RoleServiceAcl.allow, and naming an attribute the class lacks raises
\* AttributeError
is_client_allowed(c) ==
    IF role_bindings[c] = {} THEN "true"
    ELSE IF "allow" \notin RoleServiceAclColumns THEN "raise"
    ELSE IF role_bindings[c] \cap acl_allow # {} THEN "true"
    ELSE "false"

\* the handler ends after sending an error notification
ReqError(code) ==
    /\ Commit(send_error(Reg, AggClient, code))
    /\ req_pc' = "done"

\* lines 175-182: the four fields are checked
ReqValidate ==
    /\ req_pc = "received"
    /\ IF WellFormed(req)
       THEN req_pc' = "lookup" /\ UNCHANGED regVars
       ELSE ReqError("REQ_001")
    /\ handler_trail' = Append(handler_trail, "validate")
    /\ UNCHANGED <<peer_gone, aggVars, procVars, httpVars, req, his_logs, his_log, role_bindings, acl_allow>>
    /\ UNCHANGED <<traceVars, spanVars, adminVars, trackerVars>>

\* lines 190-245: the three queries; no row found sends REQ_404
ReqResolve ==
    /\ req_pc = "lookup"
    /\ his_log' = Resolve(req)
    /\ handler_trail' = handler_trail \o Lookups(req)
    /\ IF Resolve(req) = 0
       THEN ReqError("REQ_404")
       ELSE req_pc' = "rebuild" /\ UNCHANGED regVars
    /\ UNCHANGED <<peer_gone, aggVars, procVars, httpVars, req, his_logs, role_bindings, acl_allow>>
    /\ UNCHANGED <<traceVars, spanVars, adminVars, trackerVars>>

\* lines 202, 325-329: a query raises; the handler answers SRV_500
ReqLookupFails ==
    /\ req_pc = "lookup"
    /\ handler_trail' = handler_trail \o <<"lookup1", "lookup_failed">>
    /\ ReqError("SRV_500")
    /\ UNCHANGED <<peer_gone, aggVars, procVars, httpVars, req, his_logs, his_log, role_bindings, acl_allow>>
    /\ UNCHANGED <<traceVars, spanVars, adminVars, trackerVars>>

\* lines 251-288: the CDSS message is rebuilt from the row; ItemData(**item_dict)
\* raises on data that does not validate, and the handler answers SRV_500
ReqRebuild ==
    /\ req_pc = "rebuild"
    /\ IF his_logs[his_log].item_ok
       THEN req_pc' = "gate" /\ UNCHANGED regVars
       ELSE ReqError("SRV_500")
    /\ handler_trail' = Append(handler_trail, "rebuild")
    /\ UNCHANGED <<peer_gone, aggVars, procVars, httpVars, req, his_logs, his_log, role_bindings, acl_allow>>
    /\ UNCHANGED <<traceVars, spanVars, adminVars, trackerVars>>

\* mutant of GateOutcome: an exception inside the check counts as a denial
GateOutcome_FailClosed(result) == IF result = "true" THEN "allow" ELSE "deny"

\* lines 297-301: allowed = await is_client_allowed(...); except Exception:
\* allowed = True; if not allowed
GateOutcome(result) == IF result = "false" THEN "deny" ELSE "allow"

\* lines 296-304: the permission check; an exception inside it counts as allowed,
\* a False sends AUTH_403
ReqPermission ==
    /\ req_pc = "gate"
    /\ IF GateOutcome(is_client_allowed(AggClient)) = "deny"
       THEN ReqError("AUTH_403")
       ELSE req_pc' = "call" /\ UNCHANGED regVars
    /\ handler_trail' = handler_trail \o
          (IF is_client_allowed(AggClient) = "raise"
           THEN <<"permission", "permission_raised">> ELSE <<"permission">>)
    /\ UNCHANGED <<peer_gone, aggVars, procVars, httpVars, req, his_logs, his_log, role_bindings, acl_allow>>
    /\ UNCHANGED <<traceVars, spanVars, adminVars, trackerVars>>

\* lines 297-304: the binding query fails in the database and the client counts as
\* allowed
ReqPermissionFails ==
    /\ req_pc = "gate"
    /\ IF GateOutcome("raise") = "deny"
       THEN ReqError("AUTH_403")
       ELSE req_pc' = "call" /\ UNCHANGED regVars
    /\ handler_trail' = handler_trail \o <<"permission", "permission_error">>
    /\ UNCHANGED <<peer_gone, aggVars, procVars, httpVars, req, his_logs, his_log,
                   role_bindings, acl_allow>>
    /\ UNCHANGED <<traceVars, spanVars, adminVars, trackerVars>>

\* lines 306-317: the aggregator is called and sends its request upstream
ReqCallAggregator ==
    /\ req_pc = "call"
    /\ agg_pc = "idle"
    /\ agg_pc' = "request"
    /\ req_pc' = "streaming"
    /\ handler_trail' = Append(handler_trail, "upstream")
    /\ UNCHANGED <<regVars, peer_gone, response_kind, recommendations_dict, lines_read,
                   agg_return, agg_error, storeVars, procVars, httpVars, req, his_logs, his_log,
                   role_bindings, acl_allow>>
    /\ CommitTracing(AggEnter(HandlerEnter(Tracing)))
    /\ UNCHANGED <<spanVars, adminVars, trackerVars>>

\* lines 318-329: the aggregator returned, or raised and the handler answers SRV_500
ReqFinish ==
    /\ req_pc = "streaming"
    /\ agg_pc \in {"returned", "raised"}
    /\ IF agg_pc = "raised"
       THEN ReqError("SRV_500")
       ELSE req_pc' = "done" /\ UNCHANGED regVars
    /\ UNCHANGED <<peer_gone, aggVars, procVars, httpVars, req, his_logs, his_log, role_bindings,
                   acl_allow, handler_trail>>
    /\ CommitTracing(HandlerExit(Tracing, agg_pc = "raised"))
    /\ UNCHANGED <<spanVars, adminVars, trackerVars>>

-----------------------------------------------------------------------------
(* Upstream response: the lines of an event stream, or one JSON document.  *)

\* a dict that may carry check_item_name / reason / cautions; an absent key reads ""
NoPayload == [present |-> FALSE, name |-> "", reason |-> <<>>, cautions |-> <<>>]
Item(n, r, c) == [present |-> TRUE, name |-> n, reason |-> r, cautions |-> c]

\* a decoded JSON object: finish is the value of its "finish" key, code of its
\* "code" key (-1: no such key), data its "data" object, top its own item keys
Obj(f, code, data, top) ==
    [kind |-> "dict", finish |-> f, code |-> code, data |-> data, top |-> top]
NotObj(k) ==
    [kind |-> k, finish |-> "absent", code |-> -1, data |-> NoPayload, top |-> NoPayload]

\* raw: how the line starts ("empty": no characters; "data": the data: marker;
\* "brace": an opening brace; "junk": anything else); json: what follows decodes to
Line(raw, json) == [raw |-> raw, json |-> json]

Lines ==
    { Line("empty", NotObj("blank")),
      Line("junk", NotObj("blank")),
      Line("data", NotObj("blank")),
      Line("data", NotObj("invalid")),
      Line("data", NotObj("nondict")),
      Line("data", Obj("true", 0, NoPayload, NoPayload)),
      Line("brace", Obj("one", -1, NoPayload, Item("CT", <<"a">>, <<>>))),
      Line("data", Obj("false", 0, Item("CT", <<"a", " ">>, <<" ">>), NoPayload)),
      Line("data", Obj("absent", 0, Item("CT", <<"b">>, <<"a">>), NoPayload)),
      Line("brace", Obj("absent", -1, NoPayload, Item("MRI", <<" ", "a">>, <<>>))),
      Line("data", Obj("absent", 0, Item("", <<"a">>, <<>>), NoPayload)),
      Line("data", Obj("absent", 1, Item("CT", <<"b">>, <<>>), NoPayload)) }

\* one element of a one-shot document's candidate array
Cand(isdict, n, r, c) == [isdict |-> isdict, name |-> n, reason |-> r, cautions |-> c]

\* a one-shot JSON body: where is the place its array is found at
\* ("data": data is the array; "nested": data is an object holding it under
\* recommendations/items/results/list; "nested_none": data is an object without one;
\* "recommendations": a top-level recommendations array; "none")
Doc(isdict, code, where, cands) ==
    [isdict |-> isdict, code |-> code, where |-> where, cands |-> cands]

Docs ==
    { Doc(FALSE, -1, "none", <<>>),
      Doc(TRUE, 1, "none", <<>>),
      Doc(TRUE, 1, "data", <<Cand(TRUE, "CT", <<"a">>, <<>>)>>),
      Doc(TRUE, 0, "data",
          <<Cand(TRUE, "CT", <<"a", " ">>, <<>>), Cand(TRUE, "MRI", <<"b">>, <<"a">>)>>),
      Doc(TRUE, 0, "nested",
          <<Cand(TRUE, "CT", <<"a">>, <<>>), Cand(FALSE, "", <<>>, <<>>),
            Cand(TRUE, "CT", <<"b">>, <<>>)>>),
      Doc(TRUE, 0, "nested_none", <<Cand(TRUE, "CT", <<"a">>, <<>>)>>),
      Doc(TRUE, -1, "recommendations",
          <<Cand(TRUE, "", <<"a">>, <<>>), Cand(TRUE, "MRI", <<"a">>, <<"b">>)>>) }

-----------------------------------------------------------------------------
(* call_ai_recommendation_streaming: the pure steps                        *)

Names(d) == {d[i].name : i \in 1..Len(d)}

\* mutant of Accumulate: a later fragment replaces the text instead of extending it
Accumulate_Replace(d, p) ==
    IF p.name \in Names(d)
    THEN [i \in 1..Len(d) |->
            IF d[i].name = p.name
            THEN [name |-> p.name, reason |-> p.reason, cautions |-> p.cautions]
            ELSE d[i]]
    ELSE Append(d, [name |-> p.name, reason |-> p.reason, cautions |-> p.cautions])

\* recommendations_dict[name]["reason"] += ...; a new name is appended
Accumulate(d, p) ==
    IF p.name \in Names(d)
    THEN [i \in 1..Len(d) |->
            IF d[i].name = p.name
            THEN [d[i] EXCEPT !.reason = @ \o p.reason, !.cautions = @ \o p.cautions]
            ELSE d[i]]
    ELSE Append(d, [name |-> p.name, reason |-> p.reason, cautions |-> p.cautions])

\* recommendations_dict[name] = {...}: the entry is replaced, its place is kept
Assign(d, p) ==
    IF p.name \in Names(d)
    THEN [i \in 1..Len(d) |->
            IF d[i].name = p.name
            THEN [name |-> p.name, reason |-> p.reason, cautions |-> p.cautions]
            ELSE d[i]]
    ELSE Append(d, [name |-> p.name, reason |-> p.reason, cautions |-> p.cautions])

\* the list built from the dict: current_list / final_list
Snapshot(d) ==
    [i \in 1..Len(d) |->
        [check_item_name |-> d[i].name, reason |-> Strip(d[i].reason),
         cautions |-> Strip(d[i].cautions), sequence |-> i]]

\* the text handed to json.loads, "" when the line is skipped before decoding
DataStr(line) ==
    CASE line.raw = "empty" -> "skip"
      [] line.raw = "data" -> IF line.json.kind = "blank" THEN "skip" ELSE "decode"
      [] line.raw = "brace" -> "decode"
      [] OTHER -> "skip"

\* data.get("finish") in (1, True, "true", "True")
IsFinish(j) == j.kind = "dict" /\ j.finish \in {"one", "true", "str_true", "str_True"}

\* the payload of a decoded frame, NoPayload when there is none
Payload(j) ==
    IF j.kind = "dict" /\ j.code = 0 /\ j.data.present THEN j.data
    ELSE IF j.kind = "dict" /\ j.top.present THEN j.top
    ELSE NoPayload

\* mutant of LineStep: a finish frame is passed over like a line without payload
LineStep_FinishIgnored(line) ==
    IF DataStr(line) = "skip" THEN "skip"
    ELSE IF line.json.kind = "invalid" THEN "skip"
    ELSE IF ~Payload(line.json).present THEN "skip"
    ELSE IF Payload(line.json).name = "" THEN "skip"
    ELSE "apply"

\* mutant of LineStep: a line that fails to decode ends the loop
LineStep_InvalidBreaks(line) ==
    IF DataStr(line) = "skip" THEN "skip"
    ELSE IF line.json.kind = "invalid" THEN "break"
    ELSE IF IsFinish(line.json) THEN "break"
    ELSE IF ~Payload(line.json).present THEN "skip"
    ELSE IF Payload(line.json).name = "" THEN "skip"
    ELSE "apply"

\* mutant of LineStep: the empty-name check is missing
LineStep_NoNameCheck(line) ==
    IF DataStr(line) = "skip" THEN "skip"
    ELSE IF line.json.kind = "invalid" THEN "skip"
    ELSE IF IsFinish(line.json) THEN "break"
    ELSE IF ~Payload(line.json).present THEN "skip"
    ELSE "apply"

\* what the loop body does with one line: "skip" | "break" | "apply"
LineStep(line) ==
    IF DataStr(line) = "skip" THEN "skip"
    ELSE IF line.json.kind = "invalid" THEN "skip"
    ELSE IF IsFinish(line.json) THEN "break"
    ELSE IF ~Payload(line.json).present THEN "skip"
    ELSE IF Payload(line.json).name = "" THEN "skip"
    ELSE "apply"

\* the array a one-shot document's items are read from
Candidates(doc) ==
    IF doc.where \in {"data", "nested", "recommendations"} THEN doc.cands ELSE <<>>

RECURSIVE Extract(_, _)
Extract(d, cands) ==
    IF cands = <<>> THEN d
    ELSE IF ~Head(cands).isdict \/ Head(cands).name = "" THEN Extract(d, Tail(cands))
    ELSE Extract(Assign(d, Head(cands)), Tail(cands))

\* isinstance(j.get("code"), int) and j.get("code") != 0
DocIsError(doc) == doc.isdict /\ doc.code \notin {-1, 0}

\* mutant of FailureItems: the failure handler sends what was accumulated
FailureItems_Accumulated(d) == Snapshot(d)

\* the items the failure handler puts in its terminal snapshot
FailureItems(d) == <<>>

-----------------------------------------------------------------------------
(* call_ai_recommendation_streaming: the run                               *)

\* the patient and visit of the CDSS message the run was called with
AggCdss ==
    IF his_log = 0 THEN [patNo |-> "p1", admId |-> "v1"]
    ELSE [patNo |-> his_logs[his_log].pat_no, admId |-> his_logs[his_log].adm_id]

\* the row _save_ai_recommendation_log builds; ai_request_data is "json" for a
\* serialised request and "NULL" when the caller passed None; age is the number of
\* minutes since created_at
LogRow(status, recs, err, ai_request_data) ==
    [request_id |-> AggRequest, client_id |-> AggClient,
     pat_no |-> AggCdss.patNo, adm_id |-> AggCdss.admId, status |-> status,
     recommendations |-> recs, error_message |-> err,
     ai_request_data |-> ai_request_data, age |-> 0]

\* mutant of SaveLog: request_id is not unique
SaveLog_NoUnique(logs, row) ==
    IF row.ai_request_data = "NULL" THEN logs ELSE Append(logs, row)

\* add, commit; on an integrity error (request_id is unique, ai_request_data is
\* NOT NULL) rollback, and the error is logged and swallowed
SaveLog(logs, row) ==
    IF row.ai_request_data = "NULL" \/ \E i \in DOMAIN logs : logs[i].request_id = row.request_id
    THEN logs
    ELSE Append(logs, row)

AiSessionColumns ==
    {"id", "session_key", "patient_id", "client_id", "hospital_id", "session_date",
     "create_time", "update_time", "status"}

\* the NOT NULL columns of ai_session that have no default
AiSessionRequired == {"session_key", "patient_id", "client_id", "session_date"}

AiSessionRecordColumns ==
    {"record_id", "session_id", "trace_id", "service_name", "request_time", "request_data",
     "response_data", "duration_ms", "meta_data", "create_time"}

\* the NOT NULL columns of ai_session_record that have no default
AiSessionRecordRequired == {"session_id", "service_name"}

\* the declarative constructor raises TypeError on a keyword that is not a mapped
\* attribute; the commit raises on a NOT NULL column left without a value
Inserts(kwargs, columns, required) == kwargs \subseteq columns /\ required \subseteq kwargs

\* session_key = patNo#YYYYMMDD, the day being the day of the run
Today == "today"
SessionKey(patient_id) == <<patient_id, Today>>

\* _ensure_ai_session: the table after the call and the session id returned, 0 when
\* the call raised
EnsureSession(sessions, patient_id) ==
    LET existing == {i \in DOMAIN sessions : sessions[i].session_key = SessionKey(patient_id)}
    IN IF Cardinality(existing) > 1 THEN [sessions |-> sessions, id |-> 0]
       ELSE IF existing # {} THEN [sessions |-> sessions, id |-> CHOOSE i \in existing : TRUE]
       ELSE IF Inserts({"session_key", "patient_id", "visit_id", "doctor_id"},
                       AiSessionColumns, AiSessionRequired)
       THEN [sessions |-> Append(sessions, [session_key |-> SessionKey(patient_id),
                                             patient_id |-> patient_id]),
             id |-> Len(sessions) + 1]
       ELSE [sessions |-> sessions, id |-> 0]

\* _append_ai_session_record: the table after the call; a failure is swallowed
AppendSessionRecord(records, session_id) ==
    IF Inserts({"session_id", "request_id", "summary"},
               AiSessionRecordColumns, AiSessionRecordRequired)
    THEN Append(records, [session_id |-> session_id, request_id |-> AggRequest])
    ELSE records

\* _save_ai_recommendation_log on the connection's session: commit() raises on a
\* deactive transaction, and the except branch rolls back (lines 568-579)
SaveLogIn(tx, logs, row) == IF tx = "active" THEN SaveLog(logs, row) ELSE logs

\* the session after _save_ai_recommendation_log: committed, or rolled back
AfterSave(tx) == "active"

\* the log row and the session entry of one outcome: each of the two steps is in
\* its own try block, and the record is appended only when a session id came back
Persist(row) ==
    LET ensured == EnsureSession(ai_sessions, AggCdss.patNo)
    IN /\ ai_logs' = SaveLogIn(db_tx, ai_logs, row)
       /\ ai_sessions' = ensured.sessions
       /\ ai_session_records' =
             IF ensured.id = 0 THEN ai_session_records
             ELSE AppendSessionRecord(ai_session_records, ensured.id)

\* line 347: return final_list
FinalExit == "returned"

\* _ensure_ai_session raised: it rolls back and re-raises (lines 659-662)
SessionWriteRaises == EnsureSession(ai_sessions, AggCdss.patNo).id = 0

\* mutant of Escapes: the persistence calls are made without a try block
Escapes_Unguarded(raised) == raised

\* lines 305-345: every persistence and tracing call after the terminal push sits
\* in its own `try: ... except Exception: pass`, so what it raises ends there
Escapes(raised) == FALSE

\* mutant of EmptyDiagnostic: an empty final list is sent without a diagnostic
EmptyDiagnostic_Skipped(R, final_list) == R

\* lines 292-302: if not final_list, an AI_STREAM_EMPTY error is sent
EmptyDiagnostic(R, final_list) ==
    IF final_list = <<>> THEN send_error(R, AggClient, "AI_STREAM_EMPTY") ELSE R

\* lines 269-347: final list, terminal push, diagnostic, log, return
Finalize(R, d) ==
    LET final_list == Snapshot(d)
        R1 == push_ai_recommendation(R, AggClient, AggRequest, final_list, FALSE, TRUE)
        R2 == EmptyDiagnostic(R1, final_list)
    IN /\ Commit(R2)
       /\ recommendations_dict' = d
       /\ Persist(LogRow("success", final_list, "", "json"))
       /\ CommitTracing(AggExit([Tracing EXCEPT !.tx = AfterSave(db_tx)], "SUCCESS"))
       /\ agg_return' = final_list
       /\ agg_pc' = IF Escapes(SessionWriteRaises) THEN "raised" ELSE FinalExit
       /\ UNCHANGED agg_error

\* mutant of FailurePush: the failure handler does not notify the session
FailurePush_Skipped(R, d) == R

\* lines 352-363: the failure handler notifies the session
FailurePush(R, d) ==
    push_ai_recommendation(R, AggClient, AggRequest, FailureItems(d), FALSE, TRUE)

\* mutant of FailureExit: the failure handler swallows the error
FailureExit_Swallowed == "returned"

\* line 412: the failure handler ends with raise
FailureExit == "raised"

\* lines 349-412: terminal push, failure log, re-raise
Fail(R, d, e) ==
    /\ Commit(FailurePush(R, d))
    /\ recommendations_dict' = d
    /\ Persist(LogRow("failed", <<>>, e, "NULL"))
    /\ CommitTracing(AggExit([Tracing EXCEPT !.tx = AfterSave(db_tx)], "FAILED"))
    /\ agg_error' = e
    /\ agg_pc' = FailureExit
    /\ UNCHANGED agg_return

\* lines 119-141: trace and span are opened, the request is posted
AggStart ==
    /\ agg_pc = "idle"
    /\ agg_pc' = "request"
    /\ UNCHANGED <<regVars, peer_gone, response_kind, recommendations_dict, lines_read,
                   agg_return, agg_error, storeVars>>
    /\ UNCHANGED nonAggVars
    /\ CommitTracing(AggEnter(Tracing))
    /\ UNCHANGED <<spanVars, adminVars, trackerVars>>

\* the POST fails before any response: connection error or timeout
AggConnectFail(e) ==
    /\ agg_pc = "request"
    /\ Fail(Reg, recommendations_dict, e)
    /\ UNCHANGED <<peer_gone, lines_read, response_kind>>
    /\ UNCHANGED nonAggVars
    /\ UNCHANGED <<spanVars, adminVars, trackerVars>>

\* line 145: response.raise_for_status() on a non-2xx status
AggHttpError ==
    /\ agg_pc = "request"
    /\ Fail(Reg, recommendations_dict, "http_status")
    /\ UNCHANGED <<peer_gone, lines_read, response_kind>>
    /\ UNCHANGED nonAggVars
    /\ UNCHANGED <<spanVars, adminVars, trackerVars>>

\* lines 150-198: the response is one JSON document
AggJsonDoc(doc) ==
    /\ agg_pc = "request"
    /\ LET R1 == IF DocIsError(doc) THEN send_error(Reg, AggClient, "AI_JSON_ERROR") ELSE Reg
           d == IF doc.isdict THEN Extract(<<>>, Candidates(doc)) ELSE <<>>
       IN Finalize(R1, d)
    /\ response_kind' = "json"
    /\ UNCHANGED <<peer_gone, lines_read>>
    /\ UNCHANGED nonAggVars
    /\ UNCHANGED <<spanVars, adminVars, trackerVars>>

\* line 152: reading the JSON body fails
AggJsonReadFail ==
    /\ agg_pc = "request"
    /\ Fail(Reg, recommendations_dict, "timeout")
    /\ response_kind' = "json"
    /\ UNCHANGED <<peer_gone, lines_read>>
    /\ UNCHANGED nonAggVars
    /\ UNCHANGED <<spanVars, adminVars, trackerVars>>

\* line 200: the response is consumed line by line
AggStreamOpen ==
    /\ agg_pc = "request"
    /\ agg_pc' = "stream"
    /\ response_kind' = "stream"
    /\ UNCHANGED <<regVars, peer_gone, recommendations_dict, lines_read, agg_return,
                   agg_error, storeVars>>
    /\ UNCHANGED nonAggVars
    /\ UNCHANGED <<traceVars, spanVars, adminVars, trackerVars>>

\* lines 200-267: one iteration of the loop over response.aiter_lines()
AggLine(line) ==
    /\ agg_pc = "stream"
    /\ Len(lines_read) < MaxLines
    /\ lines_read' = Append(lines_read, line)
    /\ CASE LineStep(line) = "skip" ->
              UNCHANGED <<regVars, aggVars_but_lines, traceVars>>
         [] LineStep(line) = "break" ->
              Finalize(Reg, recommendations_dict)
         [] OTHER ->
              LET d == Accumulate(recommendations_dict, Payload(line.json))
              IN /\ Commit(push_ai_recommendation(Reg, AggClient, AggRequest,
                                                  Snapshot(d), TRUE, FALSE))
                 /\ recommendations_dict' = d
                 /\ UNCHANGED <<agg_pc, agg_return, agg_error, storeVars, traceVars>>
    /\ UNCHANGED <<peer_gone, response_kind>>
    /\ UNCHANGED nonAggVars
    /\ UNCHANGED <<spanVars, adminVars, trackerVars>>

\* aiter_lines() raises: read timeout or a broken upstream connection
AggStreamFail(e) ==
    /\ agg_pc = "stream"
    /\ Fail(Reg, recommendations_dict, e)
    /\ UNCHANGED <<peer_gone, lines_read, response_kind>>
    /\ UNCHANGED nonAggVars
    /\ UNCHANGED <<spanVars, adminVars, trackerVars>>

\* aiter_lines() is exhausted
AggStreamEnd ==
    /\ agg_pc = "stream"
    /\ Finalize(Reg, recommendations_dict)
    /\ UNCHANGED <<peer_gone, lines_read, response_kind>>
    /\ UNCHANGED nonAggVars
    /\ UNCHANGED <<spanVars, adminVars, trackerVars>>

\* the session's peer goes away while the aggregation runs
AggPeerGone ==
    /\ agg_pc \in {"request", "stream"}
    /\ active_connections[AggClient] # NoTransport
    /\ active_connections[AggClient] \notin peer_gone
    /\ peer_gone' = peer_gone \cup {active_connections[AggClient]}
    /\ UNCHANGED <<active_connections, client_info, ws_state, outbox, ws_calls, aggVars>>
    /\ UNCHANGED nonAggVars
    /\ UNCHANGED <<traceVars, spanVars, adminVars, trackerVars>>

AggIdle ==
    /\ agg_pc = "idle"
    /\ response_kind = ""
    /\ recommendations_dict = <<>>
    /\ lines_read = <<>>
    /\ agg_return = <<>>
    /\ agg_error = ""

\* the log of an earlier successful run
StoredLog(request_id, pat_no, adm_id, recs, age) ==
    [request_id |-> request_id, client_id |-> AggClient, pat_no |-> pat_no, adm_id |-> adm_id,
     status |-> "success", recommendations |-> recs, error_message |-> "",
     ai_request_data |-> "json", age |-> age]

StoreEmpty ==
    /\ ai_logs = <<>>
    /\ ai_sessions = <<>>
    /\ ai_session_records = <<>>

\* the aggregator is called for AggClient, whose session is registered or not
InitAgg ==
    /\ \E t \in {NoTransport, 1} :
         /\ active_connections = [c \in ClientIds |-> IF c = AggClient THEN t ELSE NoTransport]
         /\ client_info = IF t = NoTransport THEN {} ELSE {AggClient}
         /\ ws_state = [u \in Transports |-> IF u = t THEN "open" ELSE "new"]
    /\ peer_gone = {}
    /\ outbox = [u \in Transports |-> <<>>]
    /\ ws_calls = <<>>
    /\ AggIdle
    /\ ai_logs \in {<<>>, <<StoredLog(AggRequest, "p1", "v1", <<>>, 1)>>}
    /\ ai_sessions = <<>>
    /\ ai_session_records = <<>>
    /\ ProcIdle
    /\ TraceIdle
    /\ SpanIdle
    /\ AdminIdle
    /\ TrackerIdle
    /\ ReqIdle
    /\ HttpIdle

NextAgg ==
    \/ AggStart
    \/ \E e \in {"connect_error", "timeout"} : AggConnectFail(e)
    \/ AggHttpError
    \/ \E doc \in Docs : AggJsonDoc(doc)
    \/ AggJsonReadFail
    \/ AggStreamOpen
    \/ \E line \in Lines : AggLine(line)
    \/ \E e \in {"timeout", "read_error"} : AggStreamFail(e)
    \/ AggStreamEnd
    \/ AggPeerGone

vars == <<regVars, peer_gone, aggVars, procVars, reqVars, httpVars, traceVars, spanVars,
         adminVars, trackerVars>>

SpecAgg == InitAgg /\ [][NextAgg]_vars

\* ---------------------------------------------------------------------------
\* The aggregation of AggClient next to the session of another client
\* ---------------------------------------------------------------------------

MaxOther == 2

OtherClient == "c2"

\* mutant of Yields: the upstream response is read with a blocking call, which
\* keeps the event loop until the next line is there
Yields_BlockingRead(pc) == pc # "stream"

\* ai_service.py lines 127-129 and 200: at each of its program points the
\* aggregator is suspended in an await (client.stream, aiter_lines) or not running,
\* so the event loop runs the other coroutines
Yields(pc) == pc \in {"idle", "request", "stream", "returned", "raised"}

\* the other client's session is in its receive loop
OtherInLoop(c) ==
    /\ active_connections[c] # NoTransport
    /\ Len(outbox[active_connections[c]]) < MaxOther

\* websocket_manager.py lines 58-65, 117-119, 153-161: the other session's loop
\* receives a heartbeat message; handle_heartbeat replies through send_heartbeat
OtherHeartbeat(c) ==
    /\ Yields(agg_pc)
    /\ OtherInLoop(c)
    /\ Writable(Reg, active_connections[c])
    /\ Commit(RegSend(Reg, c, HeartbeatMsg).reg)
    /\ UNCHANGED <<peer_gone, aggVars>>
    /\ UNCHANGED nonAggVars
    /\ UNCHANGED <<traceVars, spanVars, adminVars, trackerVars>>

\* websocket_service.py lines 223-265: patient data is pushed to the other client
OtherPush(c) ==
    /\ Yields(agg_pc)
    /\ OtherInLoop(c)
    /\ Commit(RegSend(Reg, c, PatientDataMsg).reg)
    /\ UNCHANGED <<peer_gone, aggVars>>
    /\ UNCHANGED nonAggVars
    /\ UNCHANGED <<traceVars, spanVars, adminVars, trackerVars>>

\* the other client's peer goes away
OtherPeerGone(c) ==
    /\ active_connections[c] # NoTransport
    /\ active_connections[c] \notin peer_gone
    /\ peer_gone' = peer_gone \cup {active_connections[c]}
    /\ UNCHANGED <<regVars, aggVars>>
    /\ UNCHANGED nonAggVars
    /\ UNCHANGED <<traceVars, spanVars, adminVars, trackerVars>>

\* both clients are registered, each on its own transport, or only OtherClient is
InitPair ==
    /\ \E t \in {NoTransport, 1} :
         /\ active_connections = [c \in ClientIds |-> IF c = AggClient THEN t ELSE NumTransports]
         /\ client_info = IF t = NoTransport THEN {OtherClient} ELSE {AggClient, OtherClient}
         /\ ws_state = [u \in Transports |-> IF u \in {t, NumTransports} THEN "open" ELSE "new"]
    /\ peer_gone = {}
    /\ outbox = [u \in Transports |-> <<>>]
    /\ ws_calls = <<>>
    /\ AggIdle
    /\ StoreEmpty
    /\ ProcIdle
    /\ TraceIdle
    /\ SpanIdle
    /\ AdminIdle
    /\ TrackerIdle
    /\ ReqIdle
    /\ HttpIdle

NextPair ==
    \/ AggStart
    \/ \E e \in {"connect_error", "timeout"} : AggConnectFail(e)
    \/ AggHttpError
    \/ \E doc \in Docs : AggJsonDoc(doc)
    \/ AggJsonReadFail
    \/ AggStreamOpen
    \/ \E line \in Lines : AggLine(line)
    \/ \E e \in {"timeout", "read_error"} : AggStreamFail(e)
    \/ AggStreamEnd
    \/ AggPeerGone
    \/ OtherHeartbeat(OtherClient)
    \/ OtherPush(OtherClient)
    \/ OtherPeerGone(OtherClient)

SpecPair == InitPair /\ [][NextPair]_vars

\* ---------------------------------------------------------------------------
\* finish_span and SpanInfo.finish, called on a span table and a SpanInfo
\* ---------------------------------------------------------------------------

MaxClock == 2
MaxFinishes == 2

\* the clock advances
SpanTick ==
    /\ now < MaxClock
    /\ now' = now + 1
    /\ UNCHANGED <<span_record, span_info, traceVars>>
    /\ UNCHANGED <<regVars, peer_gone, aggVars, nonAggVars, adminVars, trackerVars>>

\* trace_service.py lines 86-119: finish_span(db, span_id, status, response, error_message)
SpanFinishRow(span_id, status, response, error_message) ==
    /\ Len(trace_calls) < MaxFinishes
    /\ span_record' = FinishSpanRow(db_tx, span_record, span_id, now, status, response,
                                    error_message)
    /\ trace_calls' = Append(trace_calls,
                             TraceCall("finish_span", "caller", 0, span_id, "", status))
    /\ UNCHANGED <<now, span_info, db_tx>>
    /\ UNCHANGED <<regVars, peer_gone, aggVars, nonAggVars, adminVars, trackerVars>>

\* core/trace.py lines 53-59: span.finish(status, error_message)
SpanInfoFinish(status, error_message) ==
    /\ Len(trace_calls) < MaxFinishes
    /\ span_info' = InfoFinished(span_info, now, status, error_message)
    /\ trace_calls' = Append(trace_calls, TraceCall("SpanInfo.finish", "caller", 0, 0, "", status))
    /\ UNCHANGED <<now, span_record, db_tx>>
    /\ UNCHANGED <<regVars, peer_gone, aggVars, nonAggVars, adminVars, trackerVars>>

\* a table that holds the row of a running span or no row, a session that is
\* usable or not, and a SpanInfo just constructed
InitSpan ==
    /\ now = 0
    /\ span_record \in {[s \in SpanIds |-> NoSpanRow],
                        [s \in SpanIds |-> IF s = 1 THEN SpanRow(0) ELSE NoSpanRow]}
    /\ span_info = NewSpanInfo(0)
    /\ trace_calls = <<>>
    /\ db_tx \in {"active", "deactive"}
    /\ AdminIdle
    /\ TrackerIdle
    /\ active_connections = [c \in ClientIds |-> NoTransport]
    /\ client_info = {}
    /\ ws_state = [t \in Transports |-> "new"]
    /\ peer_gone = {}
    /\ outbox = [t \in Transports |-> <<>>]
    /\ ws_calls = <<>>
    /\ proc = [p \in Procs |-> IF p \in Callers THEN ProcStart("idle") ELSE ProcStart("new")]
    /\ connection_status = [c \in ClientIds |-> "none"]
    /\ AggIdle
    /\ StoreEmpty
    /\ ReqIdle
    /\ HttpIdle

NextSpan ==
    \/ SpanTick
    \/ \E sid \in SpanIds, status \in {"SUCCESS", "FAILED"}, response \in {"", "count"},
          e \in {"", "timeout"} : SpanFinishRow(sid, status, response, e)
    \/ \E status \in {"success", "error"}, e \in {"", "timeout"} : SpanInfoFinish(status, e)

SpecSpan == InitSpan /\ [][NextSpan]_vars

-----------------------------------------------------------------------------
(* The registry under concurrent coroutines                                *)

\* WebSocketManager.__init__: nothing is registered
InitReg ==
    /\ active_connections = [c \in ClientIds |-> NoTransport]
    /\ client_info = {}
    /\ ws_state = [t \in Transports |-> "new"]
    /\ peer_gone = {}
    /\ outbox = [t \in Transports |-> <<>>]
    /\ ws_calls = <<>>
    /\ ProcIdle
    /\ TraceIdle
    /\ SpanIdle
    /\ AdminIdle
    /\ TrackerIdle
    /\ AggIdle
    /\ StoreEmpty
    /\ ReqIdle
    /\ HttpIdle

NextReg ==
    \/ \E t \in Transports, c \in RegClients : EpStart(t, c)
    \/ \E t \in Transports : EpAccepted(t)
    \/ \E t \in Transports : EpAcceptFailed(t)
    \/ \E t \in Transports : EpReplaceClosed(t)
    \/ \E t \in Transports : EpDbUpdated(t)
    \/ \E t \in Transports : EpHbWritten(t)
    \/ \E t \in Transports : EpHbClosed(t)
    \/ \E t \in Transports : LoopReceive(t)
    \/ \E t \in Transports : LoopReceiveRaises(t)
    \/ \E t \in Transports : EpReceiveDisconnect(t)
    \/ \E t \in Transports : EpCleanupClosed(t)
    \/ \E t \in Transports : EpCleanupDb(t)
    \/ \E p \in Callers, c \in RegClients : CallSend(p, c)
    \/ \E p \in Callers : CallSendWritten(p)
    \/ \E p \in Callers : CallSendClosed(p)
    \/ \E p \in Callers, c \in RegClients : CallUnregister(p, c)
    \/ \E p \in Callers : CallUnregisterClosed(p)
    \/ \E t \in Transports : RegPeerGone(t)

SpecReg == InitReg /\ [][NextReg]_vars

-----------------------------------------------------------------------------
(* One ai_recommend_request handled for AggClient                          *)

\* the upstream lines the handler's aggregator call is run on: a skipped line, the
\* finish frame, two item frames
ReqLines ==
    { Line("junk", NotObj("blank")),
      Line("data", Obj("true", 0, NoPayload, NoPayload)),
      Line("data", Obj("false", 0, Item("CT", <<"a", " ">>, <<" ">>), NoPayload)),
      Line("brace", Obj("absent", -1, NoPayload, Item("MRI", <<" ", "a">>, <<>>))) }

\* the one-shot documents the handler's aggregator call is run on
ReqDocs ==
    { Doc(TRUE, 1, "none", <<>>),
      Doc(TRUE, 0, "data",
          <<Cand(TRUE, "CT", <<"a", " ">>, <<>>), Cand(TRUE, "MRI", <<"b">>, <<"a">>)>>) }

\* the session loop of AggClient, registered with transport 1, calls the handler
\* with a request, over a HisPushLog table and role tables
InitReq ==
    /\ active_connections = [c \in ClientIds |-> IF c = AggClient THEN 1 ELSE NoTransport]
    /\ client_info = {AggClient}
    /\ ws_state = [u \in Transports |-> IF u = 1 THEN "open" ELSE "new"]
    /\ peer_gone = {}
    /\ outbox = [u \in Transports |-> <<>>]
    /\ ws_calls = <<>>
    /\ AggIdle
    /\ StoreEmpty
    /\ ProcIdle
    /\ TraceIdle
    /\ SpanIdle
    /\ AdminIdle
    /\ TrackerIdle
    /\ req_pc = "received"
    /\ req \in Requests
    /\ his_logs \in HisTables
    /\ his_log = 0
    /\ \E b \in SUBSET Roles :
         role_bindings = [c \in ClientIds |-> IF c = AggClient THEN b ELSE {}]
    /\ acl_allow \in SUBSET Roles
    /\ handler_trail = <<>>
    /\ HttpIdle

NextReq ==
    \/ ReqValidate
    \/ ReqResolve
    \/ ReqLookupFails
    \/ ReqRebuild
    \/ ReqPermission
    \/ ReqPermissionFails
    \/ ReqCallAggregator
    \/ ReqFinish
    \/ \E e \in {"connect_error", "timeout"} : AggConnectFail(e)
    \/ AggHttpError
    \/ \E doc \in ReqDocs : AggJsonDoc(doc)
    \/ AggJsonReadFail
    \/ AggStreamOpen
    \/ \E line \in ReqLines : AggLine(line)
    \/ \E e \in {"timeout", "read_error"} : AggStreamFail(e)
    \/ AggStreamEnd
    \/ AggPeerGone

SpecReq == InitReq /\ [][NextReq]_vars

-----------------------------------------------------------------------------
(* ai_recommend_proxy: POST /ai/recommend (ai_proxy.py:24-156)             *)

\* timedelta(minutes=5) of get_cached_recommendation, in minutes
CacheWindow == 5

\* get_cached_recommendation: the successful logs of (patient, visit) whose
\* created_at >= now - 5 minutes
CacheRows(logs, patient_id, visit_id) ==
    {i \in DOMAIN logs :
        /\ logs[i].pat_no = patient_id
        /\ logs[i].adm_id = visit_id
        /\ logs[i].status = "success"
        /\ logs[i].age <= CacheWindow}

NoCache == [found |-> FALSE, items |-> <<>>]

\* get_cached_recommendation: scalar_one_or_none() raises when the query yields
\* more than one row, and every exception makes the function return None; the
\* recommendations column of a stored row is JSON text, never empty
get_cached_recommendation(logs, patient_id, visit_id) ==
    LET rows == CacheRows(logs, patient_id, visit_id)
    IN IF Cardinality(rows) # 1 THEN NoCache
       ELSE [found |-> TRUE, items |-> logs[CHOOSE i \in rows : TRUE].recommendations]

\* _find_recent_his_push_log: the row of (patient, visit, doctor) pushed
\* successfully within the last 30 minutes, 0 for None; more than one row makes
\* scalar_one_or_none() raise, which the function turns into None
FindRecent(patient_id, visit_id, doctor_id) ==
    LET rows == {i \in DOMAIN his_logs :
                    /\ his_logs[i].pat_no = patient_id
                    /\ his_logs[i].adm_id = visit_id
                    /\ his_logs[i].user_code = doctor_id
                    /\ his_logs[i].push_status = "success"
                    /\ his_logs[i].within30}
    IN IF Cardinality(rows) # 1 THEN 0 ELSE CHOOSE i \in rows : TRUE

\* the payload of a frame for _parse_stream_response: code == 0 and data an object
ParsePayload(j) ==
    IF j.kind = "dict" /\ j.code = 0 /\ j.data.present THEN j.data ELSE NoPayload

\* what the loop body of _parse_stream_response does with one line: only lines
\* that start with data: are decoded
ParseStep(line) ==
    IF line.raw # "data" \/ line.json.kind = "blank" THEN "skip"
    ELSE IF line.json.kind = "invalid" THEN "skip"
    ELSE IF IsFinish(line.json) THEN "break"
    ELSE IF ~ParsePayload(line.json).present THEN "skip"
    ELSE IF ParsePayload(line.json).name = "" THEN "skip"
    ELSE "apply"

Response(code, recs, cached) == [code |-> code, recommendations |-> recs, cached |-> cached]

reqVars_but_his_log == <<req_pc, req, his_logs, role_bindings, acl_allow, handler_trail>>

\* raise HTTPException(status_code=code)
HttpRaise(code) ==
    /\ http_pc' = "done"
    /\ http_resp' = Response(code, <<>>, FALSE)

\* lines 38-42: client_id, doctor_id and request_id are required
HttpValidate ==
    /\ http_pc = "received"
    /\ IF http_req.client_id = "" \/ http_req.doctor_id = "" \/ http_req.request_id = ""
       THEN HttpRaise(400)
       ELSE http_pc' = "cache" /\ UNCHANGED http_resp
    /\ http_trail' = Append(http_trail, "validate")
    /\ UNCHANGED <<regVars, peer_gone, aggVars, procVars, reqVars, http_req>>
    /\ UNCHANGED <<traceVars, spanVars, adminVars, trackerVars>>

\* lines 50-71: with use_cached_data the cache is consulted, and a non-empty
\* cached list is the answer
HttpCache ==
    /\ http_pc = "cache"
    /\ LET cached == get_cached_recommendation(ai_logs, http_req.patient_id, http_req.visit_id)
       IN IF http_req.use_cached_data /\ cached.found /\ cached.items # <<>>
          THEN http_pc' = "done" /\ http_resp' = Response(200, cached.items, TRUE)
          ELSE http_pc' = "find" /\ UNCHANGED http_resp
    /\ http_trail' = IF http_req.use_cached_data THEN Append(http_trail, "cache") ELSE http_trail
    /\ UNCHANGED <<regVars, peer_gone, aggVars, procVars, reqVars, http_req>>
    /\ UNCHANGED <<traceVars, spanVars, adminVars, trackerVars>>

\* lines 74-81: the recent HisPushLog row, or 404
HttpFind ==
    /\ http_pc = "find"
    /\ LET h == FindRecent(http_req.patient_id, http_req.visit_id, http_req.doctor_id)
       IN /\ his_log' = h
          /\ IF h = 0 THEN HttpRaise(404) ELSE http_pc' = "rebuild" /\ UNCHANGED http_resp
    /\ http_trail' = Append(http_trail, "find")
    /\ UNCHANGED <<regVars, peer_gone, aggVars, procVars, reqVars_but_his_log, http_req>>
    /\ UNCHANGED <<traceVars, spanVars, adminVars, trackerVars>>

\* line 84: _rebuild_cdss_message_from_log raises on item_data that does not
\* build, and the outer handler answers 500 (lines 136-156)
HttpRebuild ==
    /\ http_pc = "rebuild"
    /\ IF his_logs[his_log].item_ok
       THEN http_pc' = "call" /\ UNCHANGED http_resp
       ELSE HttpRaise(500)
    /\ http_trail' = Append(http_trail, "rebuild")
    /\ UNCHANGED <<regVars, peer_gone, aggVars, procVars, reqVars, http_req>>
    /\ UNCHANGED <<traceVars, spanVars, adminVars, trackerVars>>

\* lines 88-93, ai_service.py:54-58, 440-452: the request is posted to the upstream
HttpCallStart ==
    /\ http_pc = "call"
    /\ http_pc' = "request"
    /\ http_trail' = Append(http_trail, "upstream")
    /\ UNCHANGED <<regVars, peer_gone, aggVars, procVars, reqVars, http_req, http_resp>>
    /\ UNCHANGED <<traceVars, spanVars, adminVars, trackerVars>>

\* ai_service.py:81-103 and ai_proxy.py:126-131: the failed log is written (and
\* rejected), the error is re-raised and becomes a 500
HttpCallFailed(e) ==
    /\ ai_logs' = SaveLog(ai_logs, LogRow("failed", <<>>, e, "NULL"))
    /\ HttpRaise(500)
    /\ UNCHANGED <<regVars, peer_gone, agg_pc, response_kind, recommendations_dict, lines_read,
                   agg_return, agg_error, ai_sessions, ai_session_records, procVars, reqVars,
                   http_req, http_trail>>

\* ai_service.py:460-473: timeout, connection error or a non-2xx status
HttpConnectFail(e) ==
    /\ http_pc = "request"
    /\ HttpCallFailed(e)
    /\ UNCHANGED <<traceVars, spanVars, adminVars, trackerVars>>

\* ai_service.py:446-453: the response is open and its lines are read
HttpStreamOpen ==
    /\ http_pc = "request"
    /\ http_pc' = "stream"
    /\ UNCHANGED <<regVars, peer_gone, aggVars, procVars, reqVars, http_req, http_resp, http_trail>>
    /\ UNCHANGED <<traceVars, spanVars, adminVars, trackerVars>>

\* ai_service.py:37-79 and ai_proxy.py:95-124: the list is built, the success log
\* is saved, the list is pushed to the client's session without partial/finish
\* marks, and the answer is 200
HttpFinish(d) ==
    LET recommendations == Snapshot(d)
        R == push_ai_recommendation(Reg, http_req.client_id, http_req.request_id,
                                    recommendations, "absent", "absent")
    IN /\ recommendations_dict' = d
       /\ ai_logs' = SaveLog(ai_logs, LogRow("success", recommendations, "", "json"))
       /\ Commit(R)
       /\ http_pc' = "done"
       /\ http_resp' = Response(200, recommendations, FALSE)

\* ai_service.py:481-515: one line of the response
HttpLine(line) ==
    /\ http_pc = "stream"
    /\ Len(lines_read) < MaxLines
    /\ lines_read' = Append(lines_read, line)
    /\ CASE ParseStep(line) = "skip" ->
              UNCHANGED <<regVars, recommendations_dict, ai_logs, http_pc, http_resp>>
         [] ParseStep(line) = "apply" ->
              /\ recommendations_dict' = Accumulate(recommendations_dict, ParsePayload(line.json))
              /\ UNCHANGED <<regVars, ai_logs, http_pc, http_resp>>
         [] OTHER -> HttpFinish(recommendations_dict)
    /\ UNCHANGED <<peer_gone, agg_pc, response_kind, agg_return, agg_error, ai_sessions,
                   ai_session_records, procVars, reqVars, http_req, http_trail>>
    /\ UNCHANGED <<traceVars, spanVars, adminVars, trackerVars>>

\* the response ends without a finish frame
HttpStreamEnd ==
    /\ http_pc = "stream"
    /\ HttpFinish(recommendations_dict)
    /\ UNCHANGED <<peer_gone, agg_pc, response_kind, lines_read, agg_return, agg_error,
                   ai_sessions, ai_session_records, procVars, reqVars, http_req, http_trail>>
    /\ UNCHANGED <<traceVars, spanVars, adminVars, trackerVars>>

\* ai_service.py:531-533: reading the response fails, the parser re-raises
HttpStreamFail(e) ==
    /\ http_pc = "stream"
    /\ HttpCallFailed(e)
    /\ UNCHANGED <<traceVars, spanVars, adminVars, trackerVars>>

\* the requests the route is called with
HttpRequests ==
    { AiProxyRequest(AggClient, "d1", AggRequest, "p1", "v1", TRUE),
      AiProxyRequest(AggClient, "d1", AggRequest, "p1", "v1", FALSE),
      AiProxyRequest(AggClient, "", AggRequest, "p1", "v1", TRUE) }

\* the HisPushLog tables the route is run against
HttpHisTables ==
    { <<>>,
      << HisLog("p1", "d1", "v1", TRUE, TRUE) >>,
      << HisLog("p1", "d1", "v1", FALSE, FALSE) >>,
      << [HisLog("p1", "d1", "v1", FALSE, TRUE) EXCEPT !.within30 = FALSE] >>,
      << HisLog("p1", "d1", "v1", FALSE, TRUE), HisLog("p1", "d1", "v1", TRUE, TRUE) >> }

\* item lists of earlier runs
ItemsA == << [check_item_name |-> "CT", reason |-> <<"a">>, cautions |-> <<>>, sequence |-> 1] >>
ItemsB == << [check_item_name |-> "MRI", reason |-> <<"b">>, cautions |-> <<>>, sequence |-> 1] >>

\* the stored logs the route is run against, oldest first: none; one inside, at
\* the edge of and outside the 5-minute window; two, with one or both inside the
\* window; one of another patient; one without items; one outside the window
\* that carries the request id of the request being served
HttpLogTables ==
    { <<>>,
      << StoredLog("q1", "p1", "v1", ItemsA, CacheWindow - 1) >>,
      << StoredLog("q1", "p1", "v1", ItemsA, CacheWindow) >>,
      << StoredLog("q1", "p1", "v1", ItemsA, CacheWindow + 1) >>,
      << StoredLog("q1", "p1", "v1", ItemsA, CacheWindow + 1), StoredLog("q2", "p1", "v1", ItemsB, 1) >>,
      << StoredLog("q1", "p1", "v1", ItemsA, 2), StoredLog("q2", "p1", "v1", ItemsB, 1) >>,
      << StoredLog("q1", "p2", "v1", ItemsA, 1) >>,
      << StoredLog("q1", "p1", "v1", <<>>, 1) >>,
      << StoredLog(AggRequest, "p1", "v1", ItemsA, CacheWindow + 1) >> }

\* the response lines the route's upstream call is run on
HttpLines ==
    { Line("data", Obj("true", 0, NoPayload, NoPayload)),
      Line("data", Obj("false", 0, Item("CT", <<"a", " ">>, <<" ">>), NoPayload)),
      Line("data", Obj("absent", 0, Item("MRI", <<"b">>, <<"a">>), NoPayload)),
      Line("brace", Obj("absent", -1, NoPayload, Item("MRI", <<" ", "a">>, <<>>))) }

\* the route is called for AggClient, whose session is registered or not
InitHttp ==
    /\ \E t \in {NoTransport, 1} :
         /\ active_connections = [c \in ClientIds |-> IF c = AggClient THEN t ELSE NoTransport]
         /\ client_info = IF t = NoTransport THEN {} ELSE {AggClient}
         /\ ws_state = [u \in Transports |-> IF u = t THEN "open" ELSE "new"]
    /\ peer_gone = {}
    /\ outbox = [u \in Transports |-> <<>>]
    /\ ws_calls = <<>>
    /\ AggIdle
    /\ ai_logs \in HttpLogTables
    /\ ai_sessions = <<>>
    /\ ai_session_records = <<>>
    /\ ProcIdle
    /\ TraceIdle
    /\ SpanIdle
    /\ AdminIdle
    /\ TrackerIdle
    /\ req_pc = "idle"
    /\ req = Request("", "", "", "")
    /\ his_logs \in HttpHisTables
    /\ his_log = 0
    /\ \E b \in SUBSET Roles :
         role_bindings = [c \in ClientIds |-> IF c = AggClient THEN b ELSE {}]
    /\ acl_allow = {}
    /\ handler_trail = <<>>
    /\ http_pc = "received"
    /\ http_req \in HttpRequests
    /\ http_resp = NoResponse
    /\ http_trail = <<>>

NextHttp ==
    \/ HttpValidate
    \/ HttpCache
    \/ HttpFind
    \/ HttpRebuild
    \/ HttpCallStart
    \/ \E e \in {"timeout", "http_status"} : HttpConnectFail(e)
    \/ HttpStreamOpen
    \/ \E line \in HttpLines : HttpLine(line)
    \/ HttpStreamEnd
    \/ \E e \in {"read_error"} : HttpStreamFail(e)

SpecHttp == InitHttp /\ [][NextHttp]_vars

-----------------------------------------------------------------------------
(* websocket_endpoint: the receive loop of a registered session (SpecLoop)  *)

\* push and notification calls made by the loops of one run
MaxCalls == 2

\* websocket_manager.py lines 58-92, 110-161: a message arrives on the transport
\* the loop is suspended on. Text that is no JSON is answered with MSG_001
\* (lines 73-82); a heartbeat is answered with a heartbeat (lines 117-119,
\* 154-161); an ai_recommend_request enters its handler, which suspends on the
\* database and the upstream call (lines 121-123)
LoopMessage(t, kind) ==
    /\ proc[t].pc = "loop"
    /\ ws_state[t] = "open"
    /\ t \notin peer_gone
    /\ Len(ws_calls) < MaxCalls
    /\ LET c == proc[t].client
           hb == RegSend(Reg, c, HeartbeatMsg)
       IN CASE kind = "bad_json" ->
                 /\ Commit(send_error(Reg, c, "MSG_001"))
                 /\ proc' = [proc EXCEPT ![t].pc = "top"]
            [] kind = "heartbeat" ->
                 /\ Commit(Logged(hb.reg, HeartbeatMsg, hb.ok))
                 /\ proc' = [proc EXCEPT ![t].pc = "top"]
            [] OTHER ->
                 /\ UNCHANGED regVars
                 /\ proc' = [proc EXCEPT ![t].pc = "handling"]
    /\ UNCHANGED <<peer_gone, connection_status, aggVars, reqVars, httpVars>>
    /\ UNCHANGED <<traceVars, spanVars, adminVars, trackerVars>>

\* ai_service.py lines 258-266: the handler's aggregator pushes a snapshot to the
\* session of the client id
LoopHandlerPush(t) ==
    /\ proc[t].pc = "handling"
    /\ Len(ws_calls) < MaxCalls
    /\ Commit(push_ai_recommendation(Reg, proc[t].client, AggRequest, ItemsA, TRUE, FALSE))
    /\ UNCHANGED <<proc, peer_gone, connection_status, aggVars, reqVars, httpVars>>
    /\ UNCHANGED <<traceVars, spanVars, adminVars, trackerVars>>

\* websocket_manager.py lines 66, 142-151, 325-329: the handler returns to the
\* loop; what it raised was caught inside it and answered with SRV_500
LoopHandlerReturns(t, raised) ==
    /\ proc[t].pc = "handling"
    /\ IF raised
       THEN /\ Len(ws_calls) < MaxCalls
            /\ Commit(send_error(Reg, proc[t].client, "SRV_500"))
       ELSE UNCHANGED regVars
    /\ proc' = [proc EXCEPT ![t].pc = "top"]
    /\ UNCHANGED <<peer_gone, connection_status, aggVars, reqVars, httpVars>>
    /\ UNCHANGED <<traceVars, spanVars, adminVars, trackerVars>>

\* connect(c1, transport 1) has returned after a delivered heartbeat and the
\* endpoint is suspended in receive_text
SessionInLoop ==
    /\ active_connections = [c \in ClientIds |-> IF c = "c1" THEN 1 ELSE NoTransport]
    /\ client_info = {"c1"}
    /\ ws_state = [t \in Transports |-> IF t = 1 THEN "open" ELSE "new"]
    /\ outbox = [t \in Transports |-> IF t = 1 THEN <<HeartbeatMsg>> ELSE <<>>]
    /\ ws_calls = <<>>
    /\ peer_gone = {}
    /\ connection_status = [c \in ClientIds |-> IF c = "c1" THEN "connected" ELSE "none"]
    /\ proc = [p \in Procs |->
                 IF p = 1
                 THEN [ProcStart("loop") EXCEPT
                         !.snd = [called |-> TRUE, reg_at_call |-> 1, attempts |-> 1,
                                  wrote |-> TRUE, ret |-> "true", reg_at_ret |-> 1],
                         !.conn = [returned |-> TRUE, reg |-> 1, pre_closed |-> FALSE]]
                 ELSE IF p \in Callers THEN ProcStart("idle") ELSE ProcStart("new")]

InitLoop ==
    /\ SessionInLoop
    /\ TraceIdle
    /\ SpanIdle
    /\ AdminIdle
    /\ TrackerIdle
    /\ AggIdle
    /\ StoreEmpty
    /\ ReqIdle
    /\ HttpIdle

\* the steps of the endpoint coroutines and of an admin disconnect that is under way
LoopRuns ==
    \/ \E t \in Transports : EpAccepted(t)
    \/ \E t \in Transports : EpReplaceClosed(t)
    \/ \E t \in Transports : EpDbUpdated(t)
    \/ \E t \in Transports : EpHbWritten(t)
    \/ \E t \in Transports : EpHbClosed(t)
    \/ \E t \in Transports : LoopReceive(t)
    \/ \E t \in Transports : LoopReceiveRaises(t)
    \/ \E t \in Transports : EpReceiveDisconnect(t)
    \/ \E t \in Transports : EpCleanupClosed(t)
    \/ \E t \in Transports : EpCleanupDb(t)
    \/ \E t \in Transports : LoopHandlerPush(t)
    \/ \E t \in Transports, raised \in BOOLEAN : LoopHandlerReturns(t, raised)
    \/ \E p \in Callers : CallUnregisterClosed(p)

\* what the peers, the upstream and the administrator do
LoopEnvironment ==
    \/ \E t \in Transports, c \in RegClients : EpStart(t, c)
    \/ \E t \in Transports : EpAcceptFailed(t)
    \/ \E t \in Transports, kind \in {"bad_json", "heartbeat", "request"} : LoopMessage(t, kind)
    \/ \E p \in Callers, c \in RegClients : CallUnregister(p, c)
    \/ \E t \in Transports : RegPeerGone(t)

NextLoop == LoopRuns \/ LoopEnvironment

\* the event loop resumes every coroutine whose await has completed
SpecLoop == InitLoop /\ [][NextLoop]_vars /\ WF_vars(LoopRuns)

-----------------------------------------------------------------------------
(* websocket_endpoint's pre-filter on ClientInfo.enabled and the admin     *)
(* route disable_client, interleaved with the handshakes (SpecGate)        *)

\* route lines 38-45: the endpoint is entered and awaits the select on ClientInfo
GateStart(t, c) ==
    /\ proc[t].pc = "new"
    /\ t = 1 \/ proc[t - 1].pc # "new"
    /\ proc' = [proc EXCEPT ![t] = [ProcStart("prefilter") EXCEPT !.client = c]]
    /\ UNCHANGED <<regVars, peer_gone, connection_status, aggVars, reqVars, httpVars>>
    /\ UNCHANGED <<traceVars, spanVars, adminVars, trackerVars>>

\* route line 46: if row and (row.enabled is False)
Rejected(c) == client_enabled[c] = "false"

\* route lines 45-53, 99-101: the select returned. A row with enabled False closes
\* the transport and returns through the finally block, which calls
\* disconnect(client_id); otherwise connect is entered and awaits accept()
GateChecked(t) ==
    /\ proc[t].pc = "prefilter"
    /\ LET c == proc[t].client
       IN IF Rejected(c)
          THEN /\ Commit(Closed(Reg, t))
               /\ proc' = IF active_connections[c] # NoTransport
                          THEN Entering(t, c, [Cleanup(t, "cl_close") EXCEPT
                                                 !.ws = active_connections[c]])
                          ELSE [proc EXCEPT ![t] = Cleanup(t, "cl_db")]
          ELSE /\ proc' = Entering(t, c, [ProcStart("accept") EXCEPT
                                            !.client = c, !.pre = active_connections[c]])
               /\ UNCHANGED regVars
    /\ UNCHANGED <<peer_gone, connection_status, aggVars, reqVars, httpVars>>
    /\ UNCHANGED <<traceVars, spanVars, adminVars, trackerVars>>

\* route lines 44-53: the select raised; `except Exception: pass` goes on to connect
GateCheckFails(t) ==
    /\ proc[t].pc = "prefilter"
    /\ LET c == proc[t].client
       IN proc' = Entering(t, c, [ProcStart("accept") EXCEPT
                                    !.client = c, !.pre = active_connections[c]])
    /\ UNCHANGED <<regVars, peer_gone, connection_status, aggVars, reqVars, httpVars>>
    /\ UNCHANGED <<traceVars, spanVars, adminVars, trackerVars>>

\* admin.py lines 160-168: disable_client is called and awaits its select, flush
\* and commit
AdminDisableStart(p, c, disabled) ==
    /\ p \in Callers
    /\ proc[p].pc = "idle"
    /\ proc' = [proc EXCEPT ![p] = [ProcStart(IF disabled THEN "ad_disable" ELSE "ad_enable")
                                      EXCEPT !.client = c]]
    /\ UNCHANGED <<regVars, peer_gone, connection_status, aggVars, reqVars, httpVars>>
    /\ UNCHANGED <<traceVars, spanVars, adminVars, trackerVars>>

\* admin.py lines 167-177: row.enabled = True is committed and the route returns
AdminEnabled(p) ==
    /\ p \in Callers
    /\ proc[p].pc = "ad_enable"
    /\ client_enabled' = [client_enabled EXCEPT ![proc[p].client] = "true"]
    /\ proc' = [proc EXCEPT ![p].pc = "enabled"]
    /\ UNCHANGED <<regVars, peer_gone, connection_status, aggVars, reqVars, httpVars>>
    /\ UNCHANGED <<traceVars, spanVars, trackerVars>>

\* admin.py lines 167-177, service lines 78-81: row.enabled = False is committed;
\* disconnect(client_id) finds no connection and the route returns, or awaits the
\* close of the one it found
AdminDisableCommitted(p) ==
    /\ p \in Callers
    /\ proc[p].pc = "ad_disable"
    /\ LET c == proc[p].client
       IN /\ client_enabled' = [client_enabled EXCEPT ![c] = "false"]
          /\ proc' = IF active_connections[c] = NoTransport
                     THEN [proc EXCEPT ![p].pc = "disabled"]
                     ELSE [proc EXCEPT ![p].pc = "ad_close", ![p].ws = active_connections[c]]
    /\ UNCHANGED <<regVars, peer_gone, connection_status, aggVars, reqVars, httpVars>>
    /\ UNCHANGED <<traceVars, spanVars, trackerVars>>

\* service lines 81-92, admin.py line 177: the close returned; the entries are
\* deleted and the route returns
AdminDisableClosed(p) ==
    /\ p \in Callers
    /\ proc[p].pc = "ad_close"
    /\ Commit(Removed(Closed(Reg, proc[p].ws), proc[p].client))
    /\ proc' = [proc EXCEPT ![p].pc = "disabled", ![p].ws = NoTransport]
    /\ UNCHANGED <<peer_gone, connection_status, aggVars, reqVars, httpVars>>
    /\ UNCHANGED <<traceVars, spanVars, adminVars, trackerVars>>

\* the values of ClientInfo.enabled: no row, or a row with the flag set or cleared
EnabledValues == {"none", "true", "false"}

\* nothing is registered; client c1 has any ClientInfo row or none
InitGate ==
    /\ active_connections = [c \in ClientIds |-> NoTransport]
    /\ client_info = {}
    /\ ws_state = [t \in Transports |-> "new"]
    /\ peer_gone = {}
    /\ outbox = [t \in Transports |-> <<>>]
    /\ ws_calls = <<>>
    /\ ProcIdle
    /\ TraceIdle
    /\ SpanIdle
    /\ \E e \in EnabledValues :
          client_enabled = [c \in ClientIds |-> IF c = "c1" THEN e ELSE "none"]
    /\ TrackerIdle
    /\ AggIdle
    /\ StoreEmpty
    /\ ReqIdle
    /\ HttpIdle

NextGate ==
    \/ \E t \in Transports, c \in RegClients : GateStart(t, c)
    \/ \E t \in Transports : GateChecked(t)
    \/ \E t \in Transports : GateCheckFails(t)
    \/ \E t \in Transports : EpAccepted(t)
    \/ \E t \in Transports : EpAcceptFailed(t)
    \/ \E t \in Transports : EpReplaceClosed(t)
    \/ \E t \in Transports : EpDbUpdated(t)
    \/ \E t \in Transports : EpHbWritten(t)
    \/ \E t \in Transports : EpHbClosed(t)
    \/ \E t \in Transports : LoopReceive(t)
    \/ \E t \in Transports : LoopReceiveRaises(t)
    \/ \E t \in Transports : EpReceiveDisconnect(t)
    \/ \E t \in Transports : EpCleanupClosed(t)
    \/ \E t \in Transports : EpCleanupDb(t)
    \/ \E p \in Callers, c \in RegClients, d \in BOOLEAN : AdminDisableStart(p, c, d)
    \/ \E p \in Callers : AdminEnabled(p)
    \/ \E p \in Callers : AdminDisableCommitted(p)
    \/ \E p \in Callers : AdminDisableClosed(p)
    \/ \E t \in Transports : RegPeerGone(t)

SpecGate == InitGate /\ [][NextGate]_vars

-----------------------------------------------------------------------------
(* core/trace.py: TraceManager and TraceContext, the ambient tracker of    *)
(* the trace and span a piece of code runs in (SpecTracker)                *)

\* spans created by the runs that are followed
MaxTracked == 5

\* lines 39-51: a SpanInfo as its constructor leaves it; trace is the trace whose
\* spans dict it is added to
TrackedSpan(trace, parent) == [trace |-> trace, parent |-> parent, status |-> "running"]

\* the tracker as a record: the spans, _current_trace, _current_span
Tracker == [spans |-> tracked_spans, trace |-> current_trace, span |-> current_span]

\* lines 77-87: TraceInfo.root_span_id of trace n
RootSpan(K, n) == CHOOSE i \in DOMAIN K.spans : K.spans[i].trace = n /\ K.spans[i].parent = 0

\* lines 112-117, generate_trace_id: an id no earlier trace has
FreshTraceId(K) == Cardinality({K.spans[i].trace : i \in DOMAIN K.spans}) + 1

\* lines 124-163, TraceManager.start_trace: the trace and its root span are created
\* and set as current
TraceManager_start_trace(K) ==
    [spans |-> Append(K.spans, TrackedSpan(FreshTraceId(K), 0)),
     trace |-> FreshTraceId(K),
     span |-> Len(K.spans) + 1]

\* lines 179-182: the parent of a new span is the span _current_span holds, the
\* root span when it holds None
ParentOfNew(K) == IF K.span # 0 THEN K.span ELSE RootSpan(K, K.trace)

\* lines 165-206, TraceManager.start_span without parent_span_id: the span is
\* added to the current trace and set as current
TraceManager_start_span(K) ==
    [spans |-> Append(K.spans, TrackedSpan(K.trace, ParentOfNew(K))),
     trace |-> K.trace,
     span |-> Len(K.spans) + 1]

\* lines 208-228, TraceManager.finish_span(span, status): span.finish(status);
\* _current_span is not assigned
TraceManager_finish_span(K, i, status) ==
    [K EXCEPT !.spans[i].status = status]

\* lines 230-258, TraceManager.finish_trace(status): every span of the current
\* trace that is running is finished and both context variables are set to None
TraceManager_finish_trace(K, status) ==
    IF K.trace = 0 THEN K
    ELSE [spans |-> [i \in DOMAIN K.spans |->
                       IF K.spans[i].trace = K.trace /\ K.spans[i].status = "running"
                       THEN [K.spans[i] EXCEPT !.status = status]
                       ELSE K.spans[i]],
          trace |-> 0,
          span |-> 0]

\* the tracker variables take the values of K
CommitTracker(K) ==
    /\ tracked_spans' = K.spans
    /\ current_trace' = K.trace
    /\ current_span' = K.span

\* lines 370-391, TraceContext.__enter__ (a `with TraceContext(...)` block or a
\* function decorated with trace_function is entered): without an active trace a
\* trace is started and the context is its root, else a span is started
CtxEnter ==
    /\ Len(tracked_spans) < MaxTracked
    /\ LET K == IF current_trace = 0 THEN TraceManager_start_trace(Tracker)
                ELSE TraceManager_start_span(Tracker)
       IN /\ CommitTracker(K)
          /\ contexts' = Append(contexts, [span |-> K.span, is_root |-> current_trace = 0])
    /\ UNCHANGED <<regVars, peer_gone, aggVars, procVars, reqVars, httpVars>>
    /\ UNCHANGED <<traceVars, spanVars, adminVars>>

\* lines 393-401, TraceContext.__exit__ of the innermost block, left normally or
\* by an exception: the root context finishes the trace, another its own span
CtxExit(raised) ==
    /\ contexts # <<>>
    /\ LET ctx == contexts[Len(contexts)]
           status == IF raised THEN "error" ELSE "success"
       IN CommitTracker(IF ctx.is_root THEN TraceManager_finish_trace(Tracker, status)
                        ELSE TraceManager_finish_span(Tracker, ctx.span, status))
    /\ contexts' = SubSeq(contexts, 1, Len(contexts) - 1)
    /\ UNCHANGED <<regVars, peer_gone, aggVars, procVars, reqVars, httpVars>>
    /\ UNCHANGED <<traceVars, spanVars, adminVars>>

\* no trace is active and no context is entered
InitTracker ==
    /\ active_connections = [c \in ClientIds |-> NoTransport]
    /\ client_info = {}
    /\ ws_state = [t \in Transports |-> "new"]
    /\ peer_gone = {}
    /\ outbox = [t \in Transports |-> <<>>]
    /\ ws_calls = <<>>
    /\ ProcIdle
    /\ TraceIdle
    /\ SpanIdle
    /\ AdminIdle
    /\ TrackerIdle
    /\ AggIdle
    /\ StoreEmpty
    /\ ReqIdle
    /\ HttpIdle

NextTracker ==
    \/ CtxEnter
    \/ \E raised \in BOOLEAN : CtxExit(raised)

SpecTracker == InitTracker /\ [][NextTracker]_vars

-----------------------------------------------------------------------------
(* Properties of the streaming aggregator (SpecAgg)                        *)

AggDone == agg_pc \in {"returned", "raised"}

\* the ai_recommendation pushes made for the run's request, in call order
AiPushes ==
    SelectSeq(ws_calls,
              LAMBDA k : k.msg.type = "ai_recommendation" /\ k.msg.requestId = AggRequest)

PartialPushes == SelectSeq(AiPushes, LAMBDA k : k.msg.partial)

IsTerminal(k) == k.msg.finish

\* a data frame of the protocol: a decodable line that is no finish frame and
\* carries a non-empty item name, wrapped ({code: 0, data: {...}}) or bare
IsDataFrame(l) ==
    /\ l.raw \in {"data", "brace"}
    /\ l.json.kind = "dict"
    /\ l.json.finish \in {"absent", "false"}
    /\ \/ l.json.code = 0 /\ l.json.data.present /\ l.json.data.name # ""
       \/ ~(l.json.code = 0 /\ l.json.data.present)
          /\ l.json.top.present /\ l.json.top.name # ""

Fragment(l) == IF l.json.code = 0 /\ l.json.data.present THEN l.json.data ELSE l.json.top

\* the data frames received so far, in arrival order
Frames == SelectSeq(lines_read, IsDataFrame)

RECURSIVE FirstSeen(_, _)
FirstSeen(fs, seen) ==
    IF fs = <<>> THEN <<>>
    ELSE IF Fragment(Head(fs)).name \in seen THEN FirstSeen(Tail(fs), seen)
    ELSE <<Fragment(Head(fs)).name>>
         \o FirstSeen(Tail(fs), seen \cup {Fragment(Head(fs)).name})

RECURSIVE JoinReason(_, _)
JoinReason(fs, n) ==
    IF fs = <<>> THEN <<>>
    ELSE (IF Fragment(Head(fs)).name = n THEN Fragment(Head(fs)).reason ELSE <<>>)
         \o JoinReason(Tail(fs), n)

RECURSIVE JoinCautions(_, _)
JoinCautions(fs, n) ==
    IF fs = <<>> THEN <<>>
    ELSE (IF Fragment(Head(fs)).name = n THEN Fragment(Head(fs)).cautions ELSE <<>>)
         \o JoinCautions(Tail(fs), n)

\* the item list the data frames fs stand for
Merged(fs) ==
    LET order == FirstSeen(fs, {})
    IN [i \in 1..Len(order) |->
          [check_item_name |-> order[i], reason |-> Strip(JoinReason(fs, order[i])),
           cautions |-> Strip(JoinCautions(fs, order[i])), sequence |-> i]]

\* C1: every run of the aggregator pushes exactly one terminal snapshot
\* (partial=false, finish=true) for its request, whatever the exit path, and it is
\* the last ai_recommendation push of the request; none is pushed while it runs.
C1_OneTerminalLast ==
    /\ AggDone =>
         /\ AiPushes # <<>>
         /\ IsTerminal(AiPushes[Len(AiPushes)])
         /\ ~AiPushes[Len(AiPushes)].msg.partial
         /\ \A i \in 1..(Len(AiPushes) - 1) : ~IsTerminal(AiPushes[i])
    /\ ~AggDone => \A i \in 1..Len(AiPushes) : ~IsTerminal(AiPushes[i])

\* a failed run that had pushed two partial snapshots before its terminal one
C1_Witness == agg_pc = "raised" /\ Len(AiPushes) = 3

\* C4: the final list of a streamed run holds each distinct item name once, in
\* first-seen order with sequence 1..n, each reason and cautions being the trimmed
\* concatenation, in arrival order, of the fragments received for that name.
C4_FinalListMerged ==
    (agg_pc = "returned" /\ response_kind = "stream") =>
        /\ agg_return = Merged(Frames)
        /\ \A i, j \in 1..Len(agg_return) :
             agg_return[i].check_item_name = agg_return[j].check_item_name => i = j
        /\ \A i \in 1..Len(agg_return) : agg_return[i].sequence = i
        /\ AiPushes[Len(AiPushes)].msg.recommendations = agg_return

\* two fragments of CT around one of MRI: CT's text is joined and trimmed
C4_Witness ==
    /\ agg_pc = "returned"
    /\ response_kind = "stream"
    /\ Len(Frames) = 3
    /\ Len(agg_return) = 2
    /\ agg_return[1].check_item_name = "CT"
    /\ agg_return[1].reason = <<"a", " ", "b">>
    /\ agg_return[2].reason = <<"a">>

\* C5: in stream mode there is one partial snapshot (partial=true, finish=false) per
\* applied frame, in arrival order, the k-th listing the items accumulated through
\* the k-th applied frame; skipped lines push nothing; k applied frames and a finish
\* frame give k partial pushes and one terminal push.
C5_PartialPerFrame ==
    response_kind = "stream" =>
        /\ Len(PartialPushes) = Len(Frames)
        /\ \A k \in 1..Len(PartialPushes) :
             /\ PartialPushes[k].msg.recommendations = Merged(SubSeq(Frames, 1, k))
             /\ ~PartialPushes[k].msg.finish
             /\ AiPushes[k] = PartialPushes[k]
        /\ agg_pc = "returned" => Len(AiPushes) = Len(Frames) + 1

\* two applied frames, then a finish frame: two partial pushes and the terminal one
C5_Witness ==
    /\ agg_pc = "returned"
    /\ Len(lines_read) = 3
    /\ Len(Frames) = 2
    /\ LineStep(lines_read[3]) = "break"
    /\ Len(PartialPushes) = 2
    /\ Len(AiPushes) = 3

\* C6: when the upstream call fails, a terminal snapshot with finish=true and an
\* empty list has been pushed by the time the error reaches the caller, and the
\* error is re-raised.
C6_FailureTerminalThenRaise ==
    /\ agg_error # "" =>
         /\ agg_pc = "raised"
         /\ ws_calls # <<>>
         /\ ws_calls[Len(ws_calls)].msg =
              AiMsg(AggRequest, <<>>, FALSE, TRUE)
    /\ agg_pc = "raised" => agg_error # ""

\* a non-2xx status: the run raises after its terminal push
C6_Witness == agg_pc = "raised" /\ agg_error = "http_status" /\ Len(AiPushes) = 1

\* the run timed out mid-stream with n >= 1 items accumulated
TimedOutWithItems ==
    /\ agg_pc = "raised"
    /\ agg_error = "timeout"
    /\ response_kind = "stream"
    /\ Len(recommendations_dict) >= 1

\* C7 as claimed: after a mid-stream timeout with n >= 1 items accumulated, the
\* terminal snapshot carries those n items.
C7_TerminalCarriesItems ==
    TimedOutWithItems =>
        /\ AiPushes[Len(AiPushes)].msg.finish
        /\ AiPushes[Len(AiPushes)].msg.recommendations = Snapshot(recommendations_dict)

\* C7 as amended: after a mid-stream timeout with n >= 1 items accumulated, the
\* terminal snapshot has finish=true and an empty list; the n items are those of
\* the last partial snapshot pushed before it.
C7_TerminalEmptyAfterTimeout ==
    TimedOutWithItems =>
        /\ AiPushes[Len(AiPushes)].msg = AiMsg(AggRequest, <<>>, FALSE, TRUE)
        /\ Len(AiPushes) >= 2
        /\ AiPushes[Len(AiPushes) - 1].msg =
             AiMsg(AggRequest, Snapshot(recommendations_dict), TRUE, FALSE)

\* a timeout with two items accumulated
C7_Witness == TimedOutWithItems /\ Len(recommendations_dict) = 2

-----------------------------------------------------------------------------
(* Properties of the registry under concurrent coroutines (SpecReg)        *)

\* a connect call for transport t that has returned, that found a connection
\* registered for its client when it was called, and that no other registry
\* operation on the client overlapped
ReplacedAlone(t) ==
    /\ proc[t].conn.returned
    /\ proc[t].pre # NoTransport
    /\ proc[t].alone

\* C2 as stated: when a connect call that found (c, t1) registered returns after a
\* successful handshake, the registry holds exactly the new transport for c and
\* t1 is closed.
C2_ReplacedHoldsNew ==
    \A t \in Transports :
        ReplacedAlone(t) => proc[t].conn.reg = t /\ proc[t].conn.pre_closed

\* C2 amended: when such a connect call returns, t1 is closed, and the registry
\* holds exactly the new transport for c if the confirmation heartbeat was written,
\* and no connection for c if that write failed.
C2_ReplacedUnlessHeartbeatFailed ==
    \A t \in Transports :
        ReplacedAlone(t) =>
            /\ proc[t].conn.pre_closed
            /\ proc[t].snd.ret \in {"true", "false"}
            /\ proc[t].snd.ret = "true" => proc[t].conn.reg = t
            /\ proc[t].snd.ret = "false" => proc[t].conn.reg = NoTransport

C2_Witness ==
    \E t \in Transports :
        /\ ReplacedAlone(t)
        /\ proc[t].conn.reg = t
        /\ proc[t].conn.pre_closed
        /\ active_connections[proc[t].client] = t

\* no connect call is in flight
RegistersReturned ==
    \A t \in Transports :
        proc[t].pc \notin {"accept", "rc_close", "db_update", "hb_write", "hb_close"}

\* C3: registry operations on one client id are mutually exclusive; in particular,
\* once all concurrent connect calls have returned, every accepted transport of the
\* client other than the registered one is closed.
C3_AcceptedOthersClosed ==
    RegistersReturned =>
        \A t \in Transports :
            ws_state[t] = "open" => active_connections[proc[t].client] = t

\* a send_message call by coroutine p that has returned
SendReturned(p) == proc[p].snd.called /\ proc[p].snd.ret # "none"

\* C8: send_message makes at most one write attempt; it returns True only if that
\* write succeeded; after a failed write it returns False and the client is no
\* longer registered; for an unregistered client it returns False without a write
\* and leaves the registry as it was; it always returns True or False.
C8_SendOnce ==
    \A p \in Procs :
        SendReturned(p) =>
            LET snd == proc[p].snd
            IN /\ snd.attempts <= 1
               /\ snd.ret \in {"true", "false"}
               /\ snd.ret = "true" <=> snd.wrote
               /\ (snd.attempts = 1 /\ ~snd.wrote) =>
                      snd.ret = "false" /\ snd.reg_at_ret = NoTransport
               /\ snd.reg_at_call = NoTransport =>
                      snd.ret = "false" /\ snd.attempts = 0 /\ snd.reg_at_ret = NoTransport

C8_Witness ==
    /\ \E p \in Procs :
          SendReturned(p) /\ proc[p].snd.attempts = 1 /\ ~proc[p].snd.wrote
             /\ proc[p].snd.ret = "false"
    /\ \E p \in Callers : SendReturned(p) /\ proc[p].snd.ret = "true"

-----------------------------------------------------------------------------
(* Properties of the request handler (SpecReq)                             *)

\* the send_error calls made with a code
ErrorsSent(code) ==
    {i \in DOMAIN ws_calls : ws_calls[i].msg.type = "error" /\ ws_calls[i].msg.code = code}

\* the role tables deny client c: it is bound to roles, none with an allow rule
GateDenies(c) == role_bindings[c] # {} /\ role_bindings[c] \cap acl_allow = {}

\* the handler has finished a well-formed request of a client the role tables
\* deny, and no lookup raised
DeniedDone ==
    /\ req_pc = "done"
    /\ WellFormed(req)
    /\ GateDenies(AggClient)
    /\ \A i \in DOMAIN handler_trail :
          handler_trail[i] \notin {"lookup_failed", "permission_error"}

\* the three queries find a row and the CDSS message is rebuilt from it
ContextResolves == Resolve(req) # 0 /\ his_logs[Resolve(req)].item_ok

\* C9: for a well-formed request whose context resolves, if the permission check
\* denies the client then exactly one AUTH_403 notification is sent, no
\* ai_recommendation message is sent and no upstream call is made.
C9_DeniedGetsOnlyAuth403 ==
    (DeniedDone /\ ContextResolves) =>
        /\ Cardinality(ErrorsSent("AUTH_403")) = 1
        /\ \A i \in DOMAIN ws_calls : ws_calls[i].msg.type # "ai_recommendation"
        /\ agg_pc = "idle"
        /\ \A i \in DOMAIN handler_trail : handler_trail[i] # "upstream"

\* the handler finished and no database query of it failed
HandlerDone ==
    /\ req_pc = "done"
    /\ \A i \in DOMAIN handler_trail : handler_trail[i] # "lookup_failed"

\* a field of the request is missing or empty
FieldMissing ==
    req.requestId = "" \/ req.patientId = "" \/ req.visitId = "" \/ req.doctorId = ""

\* no ai_recommendation message was pushed and the aggregator was never called
NothingRelayed ==
    /\ \A i \in DOMAIN ws_calls : ws_calls[i].msg.type # "ai_recommendation"
    /\ agg_pc = "idle"
    /\ \A i \in DOMAIN handler_trail : handler_trail[i] # "upstream"

\* C13: a request with a missing or empty requestId, patientId, visitId or doctorId
\* yields exactly one REQ_001 notification, and no context lookup, permission check,
\* upstream call or ai_recommendation message follows.
C13_MissingFieldGetsReq001 ==
    (HandlerDone /\ FieldMissing) =>
        /\ Cardinality(ErrorsSent("REQ_001")) = 1
        /\ Len(ws_calls) = 1
        /\ handler_trail = <<"validate">>
        /\ NothingRelayed

C13_Witness ==
    /\ HandlerDone
    /\ req.visitId = ""
    /\ Cardinality(ErrorsSent("REQ_001")) = 1
    /\ handler_trail = <<"validate">>

\* the rows of the table that match the request by patient and doctor, by patient
\* and visit, and by doctor within the last 5 minutes
ByPatientDoctor ==
    {i \in DOMAIN his_logs :
        his_logs[i].pat_no = req.patientId /\ his_logs[i].user_code = req.doctorId}
ByPatientVisit ==
    {i \in DOMAIN his_logs :
        his_logs[i].pat_no = req.patientId /\ his_logs[i].adm_id = req.visitId}
ByDoctorRecent ==
    {i \in DOMAIN his_logs : his_logs[i].user_code = req.doctorId /\ his_logs[i].recent}

\* C14: when none of the three tiers finds a record for a well-formed request, the
\* session receives REQ_404, no upstream call is made and no ai_recommendation
\* message is sent.
C14_NoContextGetsReq404 ==
    (HandlerDone /\ ~FieldMissing
        /\ ByPatientDoctor = {} /\ ByPatientVisit = {} /\ ByDoctorRecent = {}) =>
        /\ Cardinality(ErrorsSent("REQ_404")) = 1
        /\ NothingRelayed

C14_Witness ==
    /\ HandlerDone
    /\ ~FieldMissing
    /\ his_logs # <<>>
    /\ ByPatientDoctor = {} /\ ByPatientVisit = {} /\ ByDoctorRecent = {}
    /\ Cardinality(ErrorsSent("REQ_404")) = 1

\* the most recent row of a non-empty set of rows
MostRecent(rows) == CHOOSE i \in rows : \A j \in rows : j <= i

\* the lookup of a well-formed request has run without a database failure
Looked ==
    /\ req_pc \notin {"received", "lookup"}
    /\ ~FieldMissing
    /\ \A i \in DOMAIN handler_trail : handler_trail[i] # "lookup_failed"

\* C15: the resolver returns the most recent record of the first non-empty tier, in
\* the order (patient, doctor), (patient, visit), doctor within the last 5 minutes; a
\* lower tier is queried only when every higher tier is empty, and a doctor-only
\* record older than 5 minutes is never returned.
C15_FirstTierMostRecent ==
    Looked =>
        /\ ByPatientDoctor # {} => his_log = MostRecent(ByPatientDoctor)
        /\ (ByPatientDoctor = {} /\ ByPatientVisit # {}) => his_log = MostRecent(ByPatientVisit)
        /\ (ByPatientDoctor = {} /\ ByPatientVisit = {} /\ ByDoctorRecent # {}) =>
               his_log = MostRecent(ByDoctorRecent)
        /\ (ByPatientDoctor = {} /\ ByPatientVisit = {} /\ ByDoctorRecent = {}) => his_log = 0
        /\ \A i \in DOMAIN handler_trail :
              /\ handler_trail[i] = "lookup2" => ByPatientDoctor = {}
              /\ handler_trail[i] = "lookup3" => ByPatientDoctor = {} /\ ByPatientVisit = {}

C15_Witness ==
    /\ Looked
    /\ Cardinality(ByPatientDoctor) = 2
    /\ ByPatientVisit # {}
    /\ his_log = 2

\* what the role tables grant: no binding, or a bound role with an allow rule
AllowedByRules(c) == role_bindings[c] = {} \/ role_bindings[c] \cap acl_allow # {}

\* C12: is_client_allowed returns true for a client without role bindings, and for a
\* client with bindings returns true exactly when a bound role carries an allow rule.
C12_IsAllowedRule ==
    (\E i \in DOMAIN handler_trail : handler_trail[i] = "permission") =>
        is_client_allowed(AggClient) = (IF AllowedByRules(AggClient) THEN "true" ELSE "false")

\* C10: the permission check is made before the context lookup: a well-formed
\* request of a denied client is answered with AUTH_403 whether or not a record
\* matches, and REQ_404 is never reported for it.
C10_GateBeforeResolver ==
    DeniedDone =>
        /\ Cardinality(ErrorsSent("AUTH_403")) = 1
        /\ ErrorsSent("REQ_404") = {}
        /\ \A i, j \in DOMAIN handler_trail :
              (handler_trail[i] = "permission" /\ handler_trail[j] = "lookup1") => i < j

-----------------------------------------------------------------------------
(* The recommendation log and the session aggregate (SpecAgg, SpecHttp)    *)

\* the stored rows that carry the request id r
LogsOf(r) == {i \in DOMAIN ai_logs : ai_logs[i].request_id = r}

\* the stored aggregates of a patient for today
SessionsOf(patient_id) ==
    {i \in DOMAIN ai_sessions : ai_sessions[i].session_key = SessionKey(patient_id)}

\* the entries of aggregate sid written for the request id r
RecordsOf(sid, r) ==
    {k \in DOMAIN ai_session_records :
        ai_session_records[k].session_id = sid /\ ai_session_records[k].request_id = r}

\* C18: every aggregation run, whether it succeeds or fails, persists exactly one
\* RecommendationLog (success, or failed with the error detail) and appends exactly
\* one SessionRecord to the aggregate of (patient, today), creating it if absent.
C18_OutcomePersisted ==
    AggDone =>
        /\ Cardinality(LogsOf(AggRequest)) = 1
        /\ \A i \in LogsOf(AggRequest) :
              IF agg_pc = "returned" THEN ai_logs[i].status = "success"
              ELSE ai_logs[i].status = "failed" /\ ai_logs[i].error_message = agg_error
        /\ \E sid \in SessionsOf(AggCdss.patNo) : Cardinality(RecordsOf(sid, AggRequest)) = 1

\* the stored rows keep their place and their content in every step
LogsKept == \A i \in DOMAIN ai_logs : i \in DOMAIN ai_logs' /\ ai_logs'[i] = ai_logs[i]

\* C19: a RecommendationLog is created at most once per request identifier and is
\* never modified afterwards; a run that reuses the request id of a stored log
\* leaves that log unchanged and adds no second one.
C19_LogOncePerRequest ==
    /\ [](\A i, j \in DOMAIN ai_logs : ai_logs[i].request_id = ai_logs[j].request_id => i = j)
    /\ [][LogsKept]_vars

\* the route answered a request with fresh items while a log of the same request
\* id was stored, and that log is all the table holds
C19_Witness ==
    /\ http_pc = "done"
    /\ http_resp.code = 200 /\ ~http_resp.cached /\ http_resp.recommendations # <<>>
    /\ ai_logs = <<StoredLog(AggRequest, "p1", "v1", ItemsA, CacheWindow + 1)>>

\* C20: at most one SessionAggregate exists per (patient, day); the first outcome
\* for a patient on a day creates it and later outcomes append to that same one.
C20_OneAggregatePerDay ==
    /\ Cardinality(SessionsOf(AggCdss.patNo)) <= 1
    /\ AggDone => Cardinality(SessionsOf(AggCdss.patNo)) = 1

-----------------------------------------------------------------------------
(* Properties of the HTTP recommend route (SpecHttp)                       *)

\* the entries of a trail before position i that are permission checks
ChecksBefore(trail, i) == {k \in 1..(i - 1) : trail[k] = "permission"}

\* C11: every upstream call made for a client, by the session-initiated streaming
\* path or by the HTTP recommend path, is preceded in the same request by exactly
\* one Permission Gate check for that client, and that check allowed it.
C11_UpstreamAfterOneAllow ==
    /\ \A i \in DOMAIN http_trail :
          http_trail[i] = "upstream" =>
              Cardinality(ChecksBefore(http_trail, i)) = 1 /\ AllowedByRules(http_req.client_id)
    /\ \A i \in DOMAIN handler_trail :
          handler_trail[i] = "upstream" =>
              Cardinality(ChecksBefore(handler_trail, i)) = 1 /\ AllowedByRules(AggClient)

\* the route has just consulted the cache: the stored logs are those it read
CacheConsulted ==
    /\ \E i \in DOMAIN http_trail : http_trail[i] = "cache"
    /\ http_pc = "find" \/ (http_pc = "done" /\ http_resp.cached)

\* the successful logs of the request's (patient, visit) younger than, and not
\* younger than, 5 minutes
FreshLogs ==
    {i \in DOMAIN ai_logs :
        /\ ai_logs[i].pat_no = http_req.patient_id /\ ai_logs[i].adm_id = http_req.visit_id
        /\ ai_logs[i].status = "success" /\ ai_logs[i].age < CacheWindow}
ExpiredLogs ==
    {i \in DOMAIN ai_logs :
        /\ ai_logs[i].pat_no = http_req.patient_id /\ ai_logs[i].adm_id = http_req.visit_id
        /\ ai_logs[i].status = "success" /\ ai_logs[i].age >= CacheWindow}

Cached == get_cached_recommendation(ai_logs, http_req.patient_id, http_req.visit_id)

\* C16: GetCached(p, v) returns a value iff a successful log for (p, v) was created
\* within the last 5 minutes, and the value is the item list of the most recent such
\* log, also when several successful logs lie inside the window (logs aged exactly
\* 5 minutes are left to C17).
C16_CachedIsMostRecentFresh ==
    (CacheConsulted /\ \A i \in DOMAIN ai_logs : ai_logs[i].age # CacheWindow) =>
        IF FreshLogs = {} THEN ~Cached.found
        ELSE /\ Cached.found
             /\ Cached.items = ai_logs[MostRecent(FreshLogs)].recommendations

\* C17: GetCached(p, v) returns nothing when the only successful log for (p, v) is
\* aged exactly 5 minutes or more.
C17_NothingAtExpiry ==
    (CacheConsulted /\ FreshLogs = {} /\ Cardinality(ExpiredLogs) = 1) =>
        /\ ~Cached.found
        /\ ~http_resp.cached

-----------------------------------------------------------------------------
(* Properties of the aggregator's reading of the response (SpecAgg)        *)

\* a decodable line whose finish field is 1, true, "true" or "True"
FinishFrame(l) ==
    /\ l.raw \in {"data", "brace"}
    /\ l.json.kind = "dict"
    /\ l.json.finish \in {"one", "true", "str_true", "str_True"}

\* the data frames among the first n lines read
FramesBefore(n) == SelectSeq(SubSeq(lines_read, 1, n), IsDataFrame)

Skippable(l) ==
    \/ l.raw \in {"empty", "junk"}
    \/ l.json.kind \in {"blank", "invalid", "nondict"}
    \/ /\ l.json.kind = "dict"
       /\ ~FinishFrame(l)
       /\ Fragment(l).name = ""

\* the lines read that are not to be passed over
Kept == SelectSeq(lines_read, LAMBDA l : ~Skippable(l))

\* the step consumed a line that is to be passed over
SkippableRead ==
    /\ Len(lines_read') = Len(lines_read) + 1
    /\ Skippable(lines_read'[Len(lines_read')])

\* C29: a line that is empty, neither data-prefixed nor object-shaped, not decodable
\* or without an item name is skipped: reading it changes no item, pushes nothing
\* and does not end the run, so the final list is that of the same stream with such
\* lines removed.
C29_SkippedLinesChangeNothing ==
    /\ [][SkippableRead => UNCHANGED <<regVars, aggVars_but_lines>>]_vars
    /\ []((agg_pc = "returned" /\ response_kind = "stream") =>
            agg_return = Merged(SelectSeq(Kept, IsDataFrame)))

\* an undecodable line between two applied frames
C29_Witness ==
    /\ agg_pc = "returned"
    /\ Len(lines_read) = MaxLines
    /\ lines_read[2].json.kind = "invalid"
    /\ IsDataFrame(lines_read[1])
    /\ IsDataFrame(lines_read[3])
    /\ Len(PartialPushes) = 2

\* the AI_JSON_ERROR notifications sent
JsonErrorsSent ==
    {i \in DOMAIN ws_calls :
        ws_calls[i].msg.type = "error" /\ ws_calls[i].msg.code = "AI_JSON_ERROR"}

\* C30: when the response is a single JSON document with a non-zero code, an
\* AI_JSON_ERROR notification is pushed and the result is empty: the terminal
\* snapshot and the returned list hold no item, also when the document carries a
\* data or recommendations array.
C30_ErrorDocumentGivesEmpty ==
    (agg_pc = "returned" /\ response_kind = "json" /\ JsonErrorsSent # {}) =>
        /\ agg_return = <<>>
        /\ AiPushes[Len(AiPushes)].msg = AiMsg(AggRequest, <<>>, FALSE, TRUE)

\* ---------------------------------------------------------------------------
\* Properties of disconnect (SpecReg)
\* ---------------------------------------------------------------------------

\* the registry R holds nothing for client c
Absent(R, c) == R.active[c] = NoTransport /\ c \notin R.info

\* R1 differs from R only in what belongs to client c and in transport w
SameButFor(R, R1, c, w) ==
    /\ \A d \in ClientIds \ {c} : R1.active[d] = R.active[d] /\ (d \in R1.info <=> d \in R.info)
    /\ \A t \in Transports \ {w} : R1.ws[t] = R.ws[t]
    /\ R1.outbox = R.outbox
    /\ R1.calls = R.calls

\* the caller's disconnect of a registered client has returned, and nothing else
\* was running on the client meanwhile
UnregisterReturns ==
    \E p \in Callers : /\ proc[p].pc = "u_close" /\ proc'[p].pc = "done"
                       /\ proc[p].alone

\* the caller's disconnect of an absent client has returned
UnregisterOfAbsentReturns ==
    \E p \in Callers : /\ proc[p].pc = "idle" /\ proc'[p].pc = "done"
                       /\ ~proc'[p].snd.called

\* C26: disconnect is idempotent: on a registered client it closes the transport
\* and removes the client's connection and bookkeeping, leaving everything else;
\* on an absent client it changes nothing and returns normally; disconnecting a
\* second time changes nothing more. Stated for every reachable registry and for
\* the caller's disconnect steps
C26_UnregisterIdempotent ==
    /\ [](\A c \in ClientIds :
            LET R1 == RegDisconnect(Reg, c)
            IN /\ Reg.active[c] # NoTransport =>
                    /\ Absent(R1, c)
                    /\ R1.ws[Reg.active[c]] = "closed"
                    /\ SameButFor(Reg, R1, c, Reg.active[c])
               /\ Reg.active[c] = NoTransport => R1 = Reg
               /\ RegDisconnect(R1, c) = R1)
    /\ [][UnregisterOfAbsentReturns => UNCHANGED regVars]_vars
    /\ [][UnregisterReturns =>
            /\ Reg' = RegDisconnect(Reg, "c1")
            /\ Absent(Reg', "c1")
            /\ RegDisconnect(Reg', "c1") = Reg']_vars

\* the caller disconnected the one registered session of c1: its transport was
\* closed by nobody else, and the client is gone from the registry
C26_Witness ==
    /\ proc[0].pc = "done" /\ ~proc[0].snd.called /\ proc[0].alone
    /\ proc[1].pc = "loop" /\ proc[1].conn.reg = 1
    /\ \A t \in Transports \ {1} : proc[t].pc = "new"
    /\ ws_state[1] = "closed" /\ peer_gone = {}
    /\ Absent(Reg, "c1")

\* the session of transport t was superseded: the client's registered transport
\* is another one, whose connect found t in the registry
Superseded(t) ==
    LET t2 == active_connections[proc[t].client]
    IN t2 \notin {NoTransport, t} /\ proc[t2].pre = t

\* the cleanup of t's endpoint finishes its disconnect(client_id)
CleanupDisconnects(t) == proc[t].pc = "cl_close" /\ proc'[t].pc = "cl_db"

\* C27: the cleanup of a superseded session leaves the superseding transport
\* open and registered
C27_SupersederSurvivesCleanup ==
    [][\A t \in Transports :
         (CleanupDisconnects(t) /\ Superseded(t)) =>
             LET t2 == active_connections[proc[t].client]
             IN /\ active_connections'[proc[t].client] = t2
                /\ ws_state'[t2] = ws_state[t2]
                /\ proc[t].client \in client_info']_vars

\* ---------------------------------------------------------------------------
\* Independence of the sessions of two clients (SpecPair)
\* ---------------------------------------------------------------------------

\* the aggregation is suspended waiting for the upstream: for the response, or
\* for the next line of the stream
AwaitingUpstream == agg_pc \in {"request", "stream"}

\* what the registry holds for client c: its transport, its bookkeeping, and the
\* state and written messages of that transport
EntryOf(c) ==
    [ws |-> active_connections[c], info |-> c \in client_info,
     state |-> IF active_connections[c] = NoTransport THEN "none"
               ELSE ws_state[active_connections[c]],
     written |-> IF active_connections[c] = NoTransport THEN <<>>
                 ELSE outbox[active_connections[c]]]

\* a step of the aggregation for AggClient
AggregationStep ==
    \/ agg_pc' # agg_pc
    \/ lines_read' # lines_read
    \/ ws_calls' # ws_calls

\* C25: while the aggregation for AggClient waits for the upstream, a message
\* received from the other registered client and a push to it are handled; and no
\* step of the aggregation changes the other client's registry entry
C25_OtherSessionIndependent ==
    /\ []((AwaitingUpstream /\ OtherInLoop(OtherClient)) =>
            /\ ENABLED OtherPush(OtherClient)
            /\ Writable(Reg, active_connections[OtherClient]) =>
                   ENABLED OtherHeartbeat(OtherClient))
    /\ [][AggregationStep => EntryOf(OtherClient)' = EntryOf(OtherClient)]_vars

\* the upstream has sent no line yet, and meanwhile the other client's heartbeat
\* was answered and patient data was pushed to it
C25_Witness ==
    /\ agg_pc = "stream" /\ lines_read = <<>>
    /\ active_connections[AggClient] = 1
    /\ outbox[NumTransports] = <<HeartbeatMsg, PatientDataMsg>>
    /\ outbox[1] = <<>>

\* ---------------------------------------------------------------------------
\* Properties of the tracing of a relay request (SpecReq)
\* ---------------------------------------------------------------------------

\* the positions of the calls of function op in the tracing history
TraceCallsAt(op) == {i \in DOMAIN trace_calls : trace_calls[i].op = op}

\* the finish_span calls made for the span opened by call i, after it
FinishesOf(i) ==
    {j \in TraceCallsAt("finish_span") : j > i /\ trace_calls[j].span = trace_calls[i].span}

\* the handler is through with a request it passed to the aggregator
RelayDone == req_pc = "done" /\ AggDone

\* C21: when the request handler returns, finish_span has been called, once, for
\* every span opened while the request was handled: the handler's
\* ws_handle_ai_request and ai_stream_call spans and the aggregator's
\* ai_stream_call span, whether the aggregator returned or raised
C21_EverySpanFinished ==
    RelayDone =>
        /\ \A i \in TraceCallsAt("create_span") : Cardinality(FinishesOf(i)) = 1
        /\ {<<trace_calls[i].by, trace_calls[i].name>> : i \in TraceCallsAt("create_span")} =
              {<<"handler", "ws_handle_ai_request">>, <<"handler", "ai_stream_call">>,
               <<"aggregator", "ai_stream_call">>}

\* the aggregator raised after the upstream had delivered a frame, and the handler
\* answered SRV_500: the three spans were opened and the call spans finished FAILED
C21_Witness ==
    /\ RelayDone /\ agg_pc = "raised" /\ Len(Frames) > 0
    /\ ErrorsSent("SRV_500") # {}
    /\ Cardinality(TraceCallsAt("create_span")) = 3
    /\ Cardinality({j \in TraceCallsAt("finish_span") : trace_calls[j].status = "FAILED"}) = 2

\* C23: a relay request opens exactly one trace, and every span created for the
\* request, by the handler and by the aggregator, carries that trace's id
C23_OneTracePerRequest ==
    /\ Cardinality(TraceCallsAt("create_trace")) <= 1
    /\ \A i \in TraceCallsAt("create_span"), k \in TraceCallsAt("create_trace") :
          trace_calls[i].trace = trace_calls[k].trace
    /\ RelayDone => Cardinality(TraceCallsAt("create_trace")) = 1

\* ---------------------------------------------------------------------------
\* Properties of finish_span and SpanInfo.finish (SpecSpan)
\* ---------------------------------------------------------------------------

\* the step is a call of function op, for span id sid
CallStep(op, sid) ==
    /\ Len(trace_calls') = Len(trace_calls) + 1
    /\ trace_calls'[Len(trace_calls')].op = op
    /\ trace_calls'[Len(trace_calls')].span = sid

\* an earlier finish_span call has finished the row of span sid
RowFinishedBefore(sid) ==
    /\ span_record[sid] # NoSpanRow
    /\ span_record[sid].end_time # NoTime
    /\ \E i \in DOMAIN trace_calls :
          trace_calls[i].op = "finish_span" /\ trace_calls[i].span = sid

\* an earlier finish call has finished the SpanInfo
InfoFinishedBefore ==
    /\ span_info.end_time # NoTime
    /\ \E i \in DOMAIN trace_calls : trace_calls[i].op = "SpanInfo.finish"

\* C22: finishing a span is idempotent: a second finish_span call on a row that
\* is already finished, and a second finish call on a finished SpanInfo, leave end
\* time, duration, status, response and error message as the first call set them
C22_FinishIdempotent ==
    [][/\ \A sid \in SpanIds :
            (CallStep("finish_span", sid) /\ RowFinishedBefore(sid)) =>
                span_record'[sid] = span_record[sid]
       /\ (CallStep("SpanInfo.finish", 0) /\ InfoFinishedBefore) => span_info' = span_info]_vars

\* the rows the run should have written are not there: no log of the request, no
\* session aggregate of the patient
WritesFailed == LogsOf(AggRequest) = {} /\ SessionsOf(AggCdss.patNo) = {}

\* what the requester was sent and what the aggregator returned are what the
\* upstream's response alone determines
OutcomeFromUpstream ==
    /\ agg_pc = "returned" <=> agg_error = ""
    /\ ErrorsSent("SRV_500") # {} <=> agg_error # ""
    /\ Cardinality(ErrorsSent("SRV_500")) <= 1
    /\ (agg_pc = "returned" /\ response_kind = "stream") =>
          /\ agg_return = Merged(Frames)
          /\ Len(AiPushes) = Len(Frames) + 1
          /\ AiPushes[Len(AiPushes)].msg = AiMsg(AggRequest, Merged(Frames), FALSE, TRUE)
    /\ agg_pc = "raised" =>
          /\ Len(AiPushes) = Len(Frames) + 1
          /\ AiPushes[Len(AiPushes)].msg = AiMsg(AggRequest, <<>>, FALSE, TRUE)

\* C24: the failure of a log, session, trace or span write does not reach the
\* requester: with those writes failed, the messages pushed to the session and the
\* list the aggregator returns are the ones the upstream's response determines,
\* and SRV_500 is sent only when the upstream call itself failed
C24_WriteFailuresContained ==
    (RelayDone /\ WritesFailed) => OutcomeFromUpstream

\* a stream of two frames was relayed and returned while the span writes had left
\* the session deactive and neither the log nor the session aggregate was stored
C24_Witness ==
    /\ RelayDone /\ agg_pc = "returned" /\ Len(Frames) = 2
    /\ WritesFailed
    /\ ErrorsSent("SRV_500") = {}
    /\ Len(AiPushes) = 3

\* ---------------------------------------------------------------------------
\* Properties of the empty terminal snapshot (SpecReq)
\* ---------------------------------------------------------------------------

\* the terminal pushes of the request that carry no item
EmptyTerminals ==
    {i \in DOMAIN ws_calls :
        /\ ws_calls[i].msg.type = "ai_recommendation"
        /\ ws_calls[i].msg.requestId = AggRequest
        /\ ws_calls[i].msg.finish
        /\ ws_calls[i].msg.recommendations = <<>>}

\* the send_error calls made after call i
ErrorsAfter(i) == {j \in DOMAIN ws_calls : j > i /\ ws_calls[j].msg.type = "error"}

\* C31: whenever the terminal snapshot of a request is pushed with an empty item
\* list, an error notification, a message of its own, is pushed to the same session
\* while that request is handled: by the aggregator when it returns the empty list,
\* by the handler when the aggregator raised; when the snapshot was written to the
\* transport, so was the notification.
C31_EmptyTerminalHasError ==
    (req_pc = "done" \/ agg_pc = "returned") =>
        \A i \in EmptyTerminals :
            /\ ErrorsAfter(i) # {}
            /\ ws_calls[i].ok => \E j \in ErrorsAfter(i) : ws_calls[j].ok

\* the stream ended without an item: the empty terminal snapshot and the
\* AI_STREAM_EMPTY notification were both written to the session
C31_Witness ==
    /\ req_pc = "done"
    /\ agg_pc = "returned"
    /\ response_kind = "stream"
    /\ \E i \in EmptyTerminals :
         /\ ws_calls[i].ok
         /\ \E j \in ErrorsAfter(i) : ws_calls[j].ok /\ ws_calls[j].msg.code = "AI_STREAM_EMPTY"

\* ---------------------------------------------------------------------------
\* Properties of an aggregation whose session is lost while it runs (SpecReq)
\* ---------------------------------------------------------------------------

\* the transport of the session went away while the aggregation was in flight, and
\* the aggregation read the stream to its end
LostInFlight == agg_pc = "returned" /\ response_kind = "stream" /\ peer_gone # {}

\* the calls of push / send_error made once a write had failed
CallsAfterFailure ==
    {j \in DOMAIN ws_calls : \E i \in DOMAIN ws_calls : i < j /\ ~ws_calls[i].ok}

\* the aggregator kept reading: it returned the merge of every data frame it read,
\* those read after the failed write included
ConsumedToEnd == LostInFlight => agg_return = Merged(Frames)

\* every send after the failed one returned False, and none raised: the run returned
LaterSendsFalse == LostInFlight => \A j \in CallsAfterFailure : ~ws_calls[j].ok

\* the stored success log of the request that carries the list the run returned
OutcomeLogs ==
    {i \in LogsOf(AggRequest) :
        ai_logs[i].status = "success" /\ ai_logs[i].recommendations = agg_return}

\* C32: if the session's transport closes while its aggregation is in flight, the
\* aggregator keeps consuming the upstream response to its end, every later send to
\* that session returns False without raising, and the outcome is stored as a
\* recommendation log with the complete final item list.
C32_LostSessionStillLogged ==
    /\ ConsumedToEnd
    /\ LaterSendsFalse
    /\ LostInFlight => OutcomeLogs # {}

\* ---------------------------------------------------------------------------
\* Properties of the receive loop (SpecLoop)
\* ---------------------------------------------------------------------------

\* the endpoint of transport t is inside its `while True`
InLoop(t) == proc[t].pc \in {"top", "loop", "handling"}

\* the endpoint of transport t has left its loop and run its finally block
CleanedUp(t) == proc[t].pc = "done"

\* a step in which the loop of t, at the top of an iteration on a closed transport,
\* comes round to the top again
IteratesOnClosed(t) ==
    /\ proc[t].pc = "top"
    /\ ws_state[t] = "closed"
    /\ proc'[t].pc = "top"
    /\ Spins' > Spins

\* a step in which the loop of t, on a transport that stays open, dealt with a
\* message that could not be handled: text that is no JSON, or a handler that raised
MessageFailed(t) ==
    /\ proc[t].pc \in {"loop", "handling"}
    /\ proc'[t].pc # proc[t].pc
    /\ ws_state'[t] = "open"
    /\ Len(ws_calls') = Len(ws_calls) + 1
    /\ ws_calls'[Len(ws_calls')].msg.code \in {"MSG_001", "SRV_500"}

\* a failed message ends that message only: the loop goes on to its next receive
FailedMessageKeepsLoop ==
    [][\A t \in Transports : MessageFailed(t) => proc'[t].pc = "top"]_vars

\* no loop iterates on a closed transport
NoIterationOnClosed == [][\A t \in Transports : ~IteratesOnClosed(t)]_vars

\* a loop whose transport is closed gets to its cleanup
ClosedLoopCleansUp ==
    \A t \in Transports : (InLoop(t) /\ ws_state[t] = "closed") ~> CleanedUp(t)

\* the push of a handler failed, send_message closed the transport and removed the
\* session, the handler returned, and the loop has come round on the closed
\* transport with no session registered for its client
SpinsAfterFailedSend ==
    \E t \in Transports :
        /\ proc[t].pc = "top"
        /\ ws_state[t] = "closed"
        /\ active_connections[proc[t].client] = NoTransport
        /\ Spins > 0
        /\ \E i \in DOMAIN ws_calls :
              ws_calls[i].msg.type = "ai_recommendation" /\ ~ws_calls[i].ok

\* C33: once the transport of a session is closed (by the peer, by a superseding
\* handshake, by an admin disconnect, or by the disconnect that follows a failed
\* send), its receive loop leaves `while True` and runs its cleanup, and never
\* starts another iteration on the closed transport; a message that fails (bad
\* JSON, a handler that raises) ends that message only and the loop goes on to the
\* next receive.
C33_ClosedLoopExits ==
    /\ NoIterationOnClosed
    /\ ClosedLoopCleansUp
    /\ FailedMessageKeepsLoop

-----------------------------------------------------------------------------
(* C34: no session is registered for a disabled client id                  *)

\* disable_client(c, disabled=True) has returned
DisableCompleted(c) == \E p \in Callers : proc[p].pc = "disabled" /\ proc[p].client = c

\* a session is registered for c
Registered(c) == active_connections[c] # NoTransport

\* transport t is registered for the client of its handshake
RegisteredBy(t) ==
    /\ proc[t].pc \notin {"new", "prefilter"}
    /\ active_connections[proc[t].client] = t

\* after a completed disable of c, whose flag is still cleared, no session is
\* registered for c
NoSessionAfterDisable ==
    \A c \in ClientIds :
        DisableCompleted(c) /\ client_enabled[c] = "false" => ~Registered(c)

\* a handshake whose pre-filter runs while the flag is cleared closes the transport
\* and registers nothing
DisabledHandshakeCloses ==
    [][\A t \in Transports :
         proc[t].pc = "prefilter" /\ proc'[t].pc # "prefilter"
         /\ client_enabled[proc[t].client] = "false"
         => ws_state'[t] = "closed" /\ proc'[t].pc \in {"cl_close", "cl_db"}]_vars

\* the handshake was past the pre-filter when the disable committed, and registers
\* the client after the disable has returned
RegisteredAfterDisable ==
    \E t \in Transports :
        /\ RegisteredBy(t)
        /\ DisableCompleted(proc[t].client)
        /\ client_enabled[proc[t].client] = "false"

\* C34: no session is registered for a disabled client id: a handshake for an id
\* whose enabled flag is false closes the transport without registering it, and
\* after an admin disable of c has completed no session for c is registered, also
\* when the disable races with a handshake for c that is in flight
C34_NoSessionForDisabled == DisabledHandshakeCloses /\ []NoSessionAfterDisable

-----------------------------------------------------------------------------
(* C35: the permission check of the session-initiated path fails open      *)

\* the steps of the handler's trail with the given name
TrailAt(name) == {i \in DOMAIN handler_trail : handler_trail[i] = name}

\* the permission lookup raised: inside is_client_allowed, or in the database
LookupRaised == TrailAt("permission_raised") \cup TrailAt("permission_error") # {}

\* AUTH_403 notifications sent
Auth403Sent == {i \in DOMAIN ws_calls : ws_calls[i].msg.code = "AUTH_403"}

\* the handler is past the permission check and has not made the upstream call yet
BeforeUpstream == req_pc = "call"

\* a lookup that raised is an allow: no AUTH_403, and the handler goes on to the
\* upstream call
RaiseAllows ==
    LookupRaised =>
        /\ Auth403Sent = {}
        /\ req_pc \in {"call", "streaming", "done"}
        /\ ~BeforeUpstream => TrailAt("upstream") # {}

\* AUTH_403 is sent only after a lookup that completed and returned deny
DenyOnlyOnFalse ==
    Auth403Sent # {} =>
        /\ ~LookupRaised
        /\ TrailAt("permission") # {}
        /\ is_client_allowed(AggClient) = "false"

\* the step that follows a raised lookup is the upstream call
RaiseThenUpstream ==
    [][LookupRaised /\ BeforeUpstream /\ req_pc' # req_pc
       => req_pc' = "streaming" /\ agg_pc' = "request"]_vars

\* C35: on the session-initiated path the permission check fails open: if the
\* permission lookup itself raises, the request is treated as allowed and proceeds
\* to the upstream call; AUTH_403 is sent only when the lookup completes and
\* returns deny
C35_PermissionFailsOpen == []RaiseAllows /\ []DenyOnlyOnFalse /\ RaiseThenUpstream

\* the lookup raised and the upstream call was made
C35_Witness == LookupRaised /\ TrailAt("upstream") # {} /\ Auth403Sent = {}

-----------------------------------------------------------------------------
(* C36: the HTTP path and the session path resolve the same record         *)

\* the ai_recommend_request that carries the ids of the HTTP request
SessionRequestOf(h) == Request(h.request_id, h.patient_id, h.visit_id, h.doctor_id)

\* the stored records that carry the three ids of the HTTP request
MatchingAll(h) ==
    {i \in DOMAIN his_logs : /\ his_logs[i].pat_no = h.patient_id
                             /\ his_logs[i].adm_id = h.visit_id
                             /\ his_logs[i].user_code = h.doctor_id}

\* the HTTP route has just run _find_recent_his_push_log
HttpFound == http_pc = "find" /\ http_pc' # "find"

\* the record the HTTP route settles on is the one the session handler's three
\* queries settle on, for the same ids over the same table
SameRecordResolved ==
    [][HttpFound => his_log' = Resolve(SessionRequestOf(http_req))]_vars

\* with several matching records the HTTP route takes the newest and does not fail
SeveralTakeNewest ==
    [][HttpFound /\ Cardinality(MatchingAll(http_req)) > 1
       => his_log' = Newest(MatchingAll(http_req)) /\ http_pc' = "rebuild"]_vars

\* C36: the HTTP recommend path and the session-initiated path resolve the same
\* clinical-context record for the same (patientId, visitId, operatorId) over the
\* same stored records, and when several stored records match, both select the
\* most recent one rather than failing
C36_SameContextRecord == SameRecordResolved /\ SeveralTakeNewest

-----------------------------------------------------------------------------
(* C37: the non-pushing parser and the streaming aggregator agree           *)

\* ai_service.py:200-245: recommendations_dict after the loop of the streaming
\* aggregator has run over the lines ls, starting from d
RECURSIVE StreamDict(_, _)
StreamDict(d, ls) ==
    IF ls = <<>> THEN d
    ELSE IF LineStep(Head(ls)) = "break" THEN d
    ELSE IF LineStep(Head(ls)) = "skip" THEN StreamDict(d, Tail(ls))
    ELSE StreamDict(Accumulate(d, Payload(Head(ls).json)), Tail(ls))

\* ai_service.py:269-277: final_list of the streaming aggregator for the lines ls
StreamingFinal(ls) == Snapshot(StreamDict(<<>>, ls))

\* the streaming aggregator returns StreamingFinal of the lines it read (SpecAgg,
\* SpecReq)
StreamingFinalReturned ==
    agg_pc = "returned" /\ response_kind = "stream" => agg_return = StreamingFinal(lines_read)

\* the HTTP route has answered from an upstream call, whose lines are lines_read
ParsedFromUpstream == http_pc = "done" /\ http_resp.code = 200 /\ ~http_resp.cached

\* the upstream sent a bare frame: no data: marker, or items outside a wrapper
BareFrameRead ==
    \E i \in DOMAIN lines_read :
        LineStep(lines_read[i]) = "apply" /\ ParseStep(lines_read[i]) = "skip"

\* C37: for every upstream frame sequence, the final item list computed by the
\* non-pushing aggregator (_parse_stream_response, used by the HTTP path) equals
\* the final item list computed by the streaming aggregator
\* (call_ai_recommendation_streaming in stream mode)
C37_ParsersAgree ==
    ParsedFromUpstream => http_resp.recommendations = StreamingFinal(lines_read)

-----------------------------------------------------------------------------
(* C38: the connection map and the client-metadata map have the same keys  *)

\* lines 166-168: get_connected_clients returns a copy of client_info; its keys
get_connected_clients == client_info

\* the client ids that have a registered transport
ConnectionKeys == {c \in ClientIds : active_connections[c] # NoTransport}

\* coroutines p and q are inside registry operations on one client at once
Overlapping(p, q) ==
    p # q /\ InOp(p) /\ InOp(q) /\ proc[p].client = proc[q].client

\* C38: at every suspension point and after any interleaving of Register,
\* Unregister, Send and heartbeat operations, the registry's connection map and
\* its client-metadata map have exactly the same key set, so ListConnected
\* reports exactly the client ids that have a registered transport
C38_SameKeys == get_connected_clients = ConnectionKeys

\* a client is registered while a disconnect that captured an earlier transport of
\* it is suspended at its close and another operation on the client is in flight
C38_Witness ==
    /\ ConnectionKeys # {}
    /\ \E p, q \in Procs :
          /\ Overlapping(p, q)
          /\ proc[p].pc \in {"u_close", "cl_close", "s_close", "hb_close"}
          /\ proc[p].ws # active_connections[proc[p].client]

-----------------------------------------------------------------------------
(* C39: every trace opened for a relay request reaches a terminal state    *)

\* trace_service.py lines 27-35 and 136-147: the fields of the TraceRecord of
\* trace id after the calls made: as create_trace built it (end_time None, status
\* RUNNING, total_duration_ms 0) until a finish_trace call for the id sets them
TraceRecordOf(calls, id) ==
    LET fin == {j \in DOMAIN calls : calls[j].op = "finish_trace" /\ calls[j].trace = id}
    IN IF fin = {}
       THEN [ended |-> FALSE, status |-> "RUNNING", duration_set |-> FALSE]
       ELSE [ended |-> TRUE, duration_set |-> TRUE,
             status |-> calls[CHOOSE j \in fin : \A k \in fin : k <= j].status]

\* the traces opened so far
TracesOpened == {trace_calls[i].trace : i \in TraceCallsAt("create_trace")}

\* the handler has returned from a request for which a trace was opened
ReturnedWithTrace == req_pc = "done" /\ TracesOpened # {}

\* C39: every trace opened for a relay request eventually reaches a terminal
\* state: by the time the request handler returns, the trace has an end time, a
\* terminal status other than RUNNING, and a total duration equal to end time
\* minus start time
C39_TraceReachesTerminal ==
    ReturnedWithTrace =>
        \A id \in TracesOpened :
            /\ TraceRecordOf(trace_calls, id).ended
            /\ TraceRecordOf(trace_calls, id).status # "RUNNING"
            /\ TraceRecordOf(trace_calls, id).duration_set

-----------------------------------------------------------------------------
(* C40: the parent of a new span is the innermost unfinished span           *)

\* the spans of the active trace that are not finished
Unfinished ==
    {i \in DOMAIN tracked_spans :
        tracked_spans[i].trace = current_trace /\ tracked_spans[i].status = "running"}

\* the innermost of them: the one started last; the root span when the root is the
\* only one
InnermostUnfinished == CHOOSE i \in Unfinished : \A j \in Unfinished : j <= i

\* the step starts a span inside the active trace
SpanStarted == current_trace # 0 /\ Len(tracked_spans') = Len(tracked_spans) + 1

\* the span the step started
NewSpan == tracked_spans'[Len(tracked_spans')]

\* a new span's parent is the innermost span that is unfinished when it starts
ParentIsInnermost == [][SpanStarted => NewSpan.parent = InnermostUnfinished]_vars

\* a new span's parent is not finished when the span starts
ParentUnfinished ==
    [][SpanStarted => tracked_spans[NewSpan.parent].status = "running"]_vars

\* a span started after a nested context exited is a child of the span of the
\* enclosing context, as the exited span is
SiblingOfExited ==
    [][SpanStarted => NewSpan.parent = contexts[Len(contexts)].span]_vars

\* a nested context has exited and the enclosing context starts its next span
StartedAfterNestedExit ==
    /\ contexts # <<>>
    /\ \E i \in DOMAIN tracked_spans :
          /\ tracked_spans[i].trace = current_trace
          /\ tracked_spans[i].status # "running"
          /\ \E j \in DOMAIN tracked_spans : j > i /\ tracked_spans[j].trace = current_trace

\* C40: in the ambient TraceManager/TraceContext tracker, the parent of a newly
\* started span is the innermost span of the trace that is still unfinished at
\* that moment (the root span when none is): after a nested TraceContext exits,
\* the next span started in the enclosing context is a sibling of the exited
\* span, never its child, so no span ever has an already-finished span as parent
C40_ParentIsInnermostUnfinished == ParentIsInnermost /\ SiblingOfExited /\ ParentUnfinished

=============================================================================
